---------------------------- MODULE Spec2Model ----------------------------
(***************************************************************************)
(* Model of the SDP configuration prototype: the in-memory configuration   *)
(* backend (memory_backend.py), the sdpcfg command line tool (cli.py) and  *)
(* the mock processing-controller / receive-workflow loop (conftest.py).   *)
(*                                                                         *)
(* Strings that the code inspects character by character (paths, stored    *)
(* keys, workflow triples) are sequences of one-character strings.  Values *)
(* are opaque strings.  Python's None is the string "None"; where the code  *)
(* tests a value that may be of several types (docopt's result), values    *)
(* carry their type: PyNone, PyBool(b), PyStr(s).                          *)
(***************************************************************************)
EXTENDS Integers, Sequences, FiniteSets, TLC

VARIABLES
    dict,       \* MemoryBackend.dict: depth-tagged key -> value
    last,       \* history: path -> value of its last successful write, or None
    call,       \* the last backend call: [op, path, value]
    result,     \* what the last backend call did: [exc, ret]
    cli,        \* the last run of sdpcfg: its arguments and what it did
    pbs,        \* the processing blocks in the store: pb_id -> entity
    pbStates,   \* the processing block states in the store: pb_id -> state
    sbs,        \* the scheduling blocks in the store: sbi_id -> dict
    end,        \* the threading.Event of the mock_pc_and_rw fixture
    mock,       \* mock_pc_and_rw_loop: its position and local variables
    processed,  \* history: the blocks the current pass found without state
    txns,       \* the MemoryTransaction objects of the backend
    proc,       \* a running sdpcfg process: its position and what it printed
    db,         \* the Tango database: server name -> its device entries
    reg,        \* a run of register.py: its position and arguments
    dev,        \* the SDPSubarray device under test
    frames,     \* LogManager.frames: thread -> the frame of its last caller
    threads,    \* the threads of the device server: position in a log call
    formatted   \* history: per thread, the last record its handler formatted

backendVars == <<dict, last, call, result>>

cliVars == <<cli, pbs>>

mockVars == <<pbStates, sbs, end, mock, processed>>

txnVars == <<txns>>

procVars == <<proc>>

tangoVars == <<db, reg, dev>>

logVars == <<frames, threads, formatted>>

vars == <<dict, last, call, result, cli, pbs, pbStates, sbs, end, mock, processed,
          txns, proc, db, reg, dev, frames, threads,
          formatted>>

None == "None"

(***************************************************************************)
(* Bounds and input sets.                                                  *)
(***************************************************************************)
MaxKeys == 2

MaxPbs == 2

Values == {"v1", "v2"}

\* Valid paths: the example of the specification (/a/b, /a/c, /a/b/d), its
\* parent, and a sibling /ab whose name extends the name of /a.
ValidPaths ==
    { <<"/", "a">>,
      <<"/", "a", "b">>,
      <<"/", "a", "/", "b">>,
      <<"/", "a", "/", "c">>,
      <<"/", "a", "/", "b", "/", "d">>,
      <<"/", "a", "b", "/", "c">> }

\* Paths that path validation rejects: empty, no leading '/', a trailing
\* '/', the root, a character outside the permitted class.
BadPaths ==
    { <<>>,
      <<"a">>,
      <<"/", "a", "/">>,
      <<"/">>,
      <<"/", "!">> }

PathInputs == ValidPaths \cup BadPaths

\* Arguments of list_keys: the root, every valid path and every valid path
\* with a trailing '/'.
ListInputs ==
    {<<"/">>} \cup ValidPaths \cup { p \o <<"/">> : p \in ValidPaths }

(***************************************************************************)
(* Characters and strings.                                                 *)
(***************************************************************************)
\* Code points of the characters the model uses (Python compares strings
\* by code point).
Ord(c) ==
    CASE c = "\n" -> 10
      [] c = "!" -> 33
      [] c = "-" -> 45
      [] c = "/" -> 47
      [] c = "0" -> 48
      [] c = "1" -> 49
      [] c = "2" -> 50
      [] c = "3" -> 51
      [] c = "4" -> 52
      [] c = "5" -> 53
      [] c = "6" -> 54
      [] c = "7" -> 55
      [] c = "8" -> 56
      [] c = "9" -> 57
      [] c = ":" -> 58
      [] c = "_" -> 95
      [] c = "a" -> 97
      [] c = "b" -> 98
      [] c = "c" -> 99
      [] c = "d" -> 100
      [] c = "s" -> 115
      [] c = "t" -> 116

\* The character class [a-zA-Z0-9_\-/] restricted to the model's characters.
Permitted(c) ==
    \/ Ord(c) = 45
    \/ Ord(c) = 47
    \/ (48 <= Ord(c) /\ Ord(c) <= 57)
    \/ Ord(c) = 95
    \/ (97 <= Ord(c) /\ Ord(c) <= 122)

\* str.startswith
StartsWith(s, prefix) ==
    /\ Len(prefix) <= Len(s)
    /\ SubSeq(s, 1, Len(prefix)) = prefix

\* Python's < on strings.
RECURSIVE StrLess(_, _)
StrLess(s, t) ==
    IF t = <<>> THEN FALSE
    ELSE IF s = <<>> THEN TRUE
    ELSE IF Head(s) = Head(t) THEN StrLess(Tail(s), Tail(t))
    ELSE Ord(Head(s)) < Ord(Head(t))

\* sorted(...) of a collection of distinct strings.
RECURSIVE Sorted(_)
Sorted(S) ==
    IF S = {} THEN <<>>
    ELSE LET m == CHOOSE x \in S : \A y \in S \ {x} : StrLess(x, y)
         IN  <<m>> \o Sorted(S \ {m})

\* str.rstrip('/')
RECURSIVE RStrip(_)
RStrip(s) ==
    IF s # <<>> /\ s[Len(s)] = "/" THEN RStrip(SubSeq(s, 1, Len(s) - 1))
    ELSE s

\* str(n) for a natural number.
Digit(n) == <<"0", "1", "2", "3", "4", "5", "6", "7", "8", "9">>[n + 1]

RECURSIVE Str(_)
Str(n) == IF n < 10 THEN <<Digit(n)>> ELSE Str(n \div 10) \o <<Digit(n % 10)>>

(***************************************************************************)
(* Path utilities of ska_sdp_config.backend.                               *)
(***************************************************************************)
\* _depth: the number of '/'-delimited segments of a rooted path.
RECURSIVE _depth(_)
_depth(path) ==
    IF path = <<>> THEN 0
    ELSE (IF Head(path) = "/" THEN 1 ELSE 0) + _depth(Tail(path))

\* _tag_depth(path, depth): the storage key, the depth followed by the path.
_tag_depth(path, depth) == Str(depth) \o path

\* _tag_depth(path): the key that embeds the path's own depth.
_tag_depth0(path) == _tag_depth(path, _depth(path))

\* _untag_depth: the path of a storage key, everything from its first '/'.
RECURSIVE _untag_depth(_)
_untag_depth(key) ==
    IF key = <<>> \/ Head(key) = "/" THEN key ELSE _untag_depth(Tail(key))

\* _check_path: TRUE when the path passes validation (no exception).
_check_path(path) ==
    /\ path # <<>>
    /\ path[1] = "/"
    /\ path[Len(path)] # "/"
    /\ \A i \in 1..Len(path) : Permitted(path[i])

(***************************************************************************)
(* MemoryBackend.  An operation maps the dictionary to the dictionary      *)
(* after the call and the exception the call raised ("none": it returned). *)
(***************************************************************************)
\* MemoryBackend.get
get(d, path) ==
    LET k == _tag_depth0(path) IN IF k \in DOMAIN d THEN d[k] ELSE None

\* A _put that keeps the value of a key that is already present.
_put_keeps_old(d, path, value) ==
    [k \in DOMAIN d \cup {path} |-> IF k \in DOMAIN d THEN d[k] ELSE value]

\* MemoryBackend._put
_put(d, path, value) ==
    [k \in DOMAIN d \cup {path} |-> IF k = path THEN value ELSE d[k]]

\* A delete that blanks the value and keeps the key.
_pop_keeps_key(d, path, value) ==
    [k \in DOMAIN d |-> IF k = path THEN None ELSE d[k]]

\* the lambda of MemoryBackend.delete: self.dict.pop(t)
_pop(d, path, value) == [k \in DOMAIN d \ {path} |-> d[k]]

\* A _check_exists that never raises.
_check_exists_never(d, path) == "none"

\* MemoryBackend._check_exists: the exception raised, or "none"
_check_exists(d, path) ==
    IF path \notin DOMAIN d THEN "ConfigVanished" ELSE "none"

\* A _check_not_exists that never raises.
_check_not_exists_never(d, path) == "none"

\* MemoryBackend._check_not_exists
_check_not_exists(d, path) ==
    IF path \in DOMAIN d THEN "ConfigCollision" ELSE "none"

\* The callables handed to _op, by name.
to_check_call(to_check, d, tag) ==
    IF to_check = "_check_exists" THEN _check_exists(d, tag)
    ELSE _check_not_exists(d, tag)

to_do_call(to_do, d, tag, value) ==
    IF to_do = "_put" THEN _put(d, tag, value) ELSE _pop(d, tag, value)

\* An _op that undoes earlier writes when its check fails: it hands back
\* an empty dictionary.
_op_undoes_on_error(d, path, value, to_check, to_do) ==
    IF ~_check_path(path) THEN [dict |-> [k \in {} |-> None], exc |-> "InvalidPath"]
    ELSE LET tag == _tag_depth0(path)
         IN  IF to_check_call(to_check, d, tag) # "none"
             THEN [dict |-> [k \in {} |-> None],
                   exc |-> to_check_call(to_check, d, tag)]
             ELSE [dict |-> to_do_call(to_do, d, tag, value), exc |-> "none"]

\* _op: validate, tag, check, do
_op(d, path, value, to_check, to_do) ==
    IF ~_check_path(path) THEN [dict |-> d, exc |-> "InvalidPath"]
    ELSE LET tag == _tag_depth0(path)
         IN  IF to_check_call(to_check, d, tag) # "none"
             THEN [dict |-> d, exc |-> to_check_call(to_check, d, tag)]
             ELSE [dict |-> to_do_call(to_do, d, tag, value), exc |-> "none"]

\* MemoryBackend.create
create(d, path, value) == _op(d, path, value, "_check_not_exists", "_put")

\* MemoryBackend.update
update(d, path, value) == _op(d, path, value, "_check_exists", "_put")

\* MemoryBackend.delete
delete(d, path) == _op(d, path, None, "_check_exists", "_pop")

\* MemoryBackend.list_keys
list_keys(d, path) ==
    LET p     == IF path = <<"/">> THEN path ELSE RStrip(path)
        depth == IF path = <<"/">> THEN 1 ELSE _depth(p) + 1
        tag   == _tag_depth(p, depth)
    IN  Sorted({ _untag_depth(k) : k \in { x \in DOMAIN d : StartsWith(x, tag) } })

EmptyDict == [k \in {} |-> None]

(***************************************************************************)
(* The configuration client as the command line tool and the mock loop use *)
(* it.  Processing blocks live in pbs, keyed by their id.                  *)
(***************************************************************************)
\* Python values that carry their type.
PyNone == [t |-> "NoneType"]

PyBool(b) == [t |-> "bool", v |-> b]

PyStr(s) == [t |-> "str", v |-> s]

\* The ids new_processing_block_id hands out, in order.
PbIds == SubSeq(<<"pb1", "pb2", "pb3", "pb4">>, 1, MaxPbs)

NoBlocks == [k \in {} |-> None]

\* Transaction.new_processing_block_id: the first id not yet in use.
new_processing_block_id(blocks, workflow_type) ==
    LET free == { i \in 1..Len(PbIds) : PbIds[i] \notin DOMAIN blocks }
    IN  PbIds[CHOOSE i \in free : \A j \in free : i <= j]

\* entity.ProcessingBlock(pb_id, sbi_id, workflow)
ProcessingBlock(pb_id, sbi_id, workflow) ==
    [pb_id |-> pb_id, sbi_id |-> sbi_id, workflow |-> workflow]

\* Transaction.create_processing_block
create_processing_block(blocks, pb) ==
    [k \in DOMAIN blocks \cup {pb.pb_id} |-> IF k = pb.pb_id THEN pb ELSE blocks[k]]

\* Transaction.list_processing_blocks: the ids, sorted (PbIds is in order).
list_processing_blocks(blocks) == SelectSeq(PbIds, LAMBDA id : id \in DOMAIN blocks)

\* Transaction.get_processing_block
get_processing_block(blocks, pb_id) ==
    IF pb_id \in DOMAIN blocks THEN blocks[pb_id] ELSE PyNone

\* Transaction.get_processing_block_state: None when not yet created.
get_processing_block_state(states, pb_id) ==
    IF pb_id \in DOMAIN states THEN states[pb_id] ELSE PyNone

\* Transaction.create_processing_block_state: the exception raised, or "none".
create_processing_block_state_exc(states, pb_id) ==
    IF pb_id \in DOMAIN states THEN "ConfigCollision" ELSE "none"

\* Transaction.create_processing_block_state: the states after it.
create_processing_block_state(states, pb_id, state) ==
    [k \in DOMAIN states \cup {pb_id} |-> IF k = pb_id THEN state ELSE states[k]]

\* Transaction.get_scheduling_block: None when there is none.
get_scheduling_block(blocks, sbi_id) ==
    IF sbi_id \in DOMAIN blocks THEN blocks[sbi_id] ELSE PyNone

\* Transaction.update_scheduling_block
update_scheduling_block(blocks, sbi_id, sb) == [blocks EXCEPT ![sbi_id] = sb]

(***************************************************************************)
(* The mock processing controller and receive workflow (conftest.py).      *)
(***************************************************************************)
RECEIVE_WORKFLOWS == {"test_receive_addresses"}

RECEIVE_ADDRESSES ==
    [science_A |->
        [host |-> << <<0, "192.168.0.1">>, <<2000, "192.168.0.1">> >>,
         port |-> << <<0, 9000, 1>>, <<2000, 9000, 1>> >>],
     calibration_B |->
        [host |-> << <<0, "192.168.0.1">>, <<2000, "192.168.0.1">> >>,
         port |-> << <<0, 9000, 1>>, <<2000, 9000, 1>> >>]]

\* d[key] = value on a Python dict.
SetItem(d, key, value) ==
    [k \in DOMAIN d \cup {key} |-> IF k = key THEN value ELSE d[k]]

\* pb_state = {'status': 'RUNNING'}
new_pb_state == [status |-> "RUNNING"]

\* pb.workflow['id'] in RECEIVE_WORKFLOWS
is_receive_workflow(pb) == pb.workflow["id"] \in RECEIVE_WORKFLOWS

\* A back-reference that names the scheduling block instead of the
\* processing block.
set_pb_receive_addresses_sbi(sb, pb) == SetItem(sb, "pb_receive_addresses", pb.sbi_id)

\* sb['pb_receive_addresses'] = pb_id
set_pb_receive_addresses(sb, pb) == SetItem(sb, "pb_receive_addresses", pb.pb_id)

\* A state that is left without the addresses.
set_receive_addresses_omitted(pb_state) == pb_state

\* pb_state['receive_addresses'] = RECEIVE_ADDRESSES
set_receive_addresses(pb_state) ==
    SetItem(pb_state, "receive_addresses", RECEIVE_ADDRESSES)

(***************************************************************************)
(* sdpcfg (cli.py).                                                        *)
(***************************************************************************)
\* The truth value of a command or option of docopt's result.
Truthy(x) == x.t = "bool" /\ x.v

\* str.split(sep)
RECURSIVE Split(_, _)
Split(s, sep) ==
    IF \A i \in 1..Len(s) : s[i] # sep THEN <<s>>
    ELSE LET i == CHOOSE i \in 1..Len(s) :
                      s[i] = sep /\ \A j \in 1..(i - 1) : s[j] # sep
         IN  <<SubSeq(s, 1, i - 1)>> \o Split(SubSeq(s, i + 1, Len(s)), sep)

\* re.match('^[a-zA-Z0-9_\\-/]*$', path): '$' matches at the end of the
\* string and also just before a newline that ends the string.
ReMatch(path) ==
    LET body == IF path # <<>> /\ path[Len(path)] = "\n"
                THEN SubSeq(path, 1, Len(path) - 1)
                ELSE path
    IN  \A i \in 1..Len(body) : Permitted(body[i])

\* docopt.docopt(__doc__, argv) for an invocation that matches the usage
\* text: a command that is not given is False, an argument that is not
\* given is None.
docopt(inv) ==
    [get       |-> PyBool(inv.cmd = "get"),
     watch     |-> PyBool(inv.cmd = "watch" \/ inv.watch),
     ls        |-> PyBool(inv.cmd = "ls"),
     list      |-> PyBool(inv.cmd = "list"),
     values    |-> PyBool(inv.values),
     delete    |-> PyBool(inv.cmd = "delete"),
     create    |-> PyBool(inv.cmd = "create"),
     update    |-> PyBool(inv.cmd = "update"),
     create_pb |-> PyBool(inv.cmd = "create_pb"),
     quiet     |-> PyBool(inv.quiet),
     path      |-> IF inv.cmd = "create_pb" THEN PyNone ELSE PyStr(inv.path),
     value     |-> IF inv.cmd \in {"create", "update"} THEN inv.value ELSE None,
     workflow  |-> IF inv.cmd = "create_pb" THEN PyStr(inv.workflow) ELSE PyNone]

\* What a command leaves behind: the store, the exception it raised, the
\* lines it printed, the backend operations it made, the id it returned.
Done(d, blocks, exc, out, ops, pb_id) ==
    [dict |-> d, pbs |-> blocks, exc |-> exc, out |-> out, ops |-> ops, pb_id |-> pb_id]

\* cmd_get
cmd_get(d, blocks, path, args) ==
    LET val == get(d, path)
    IN  Done(d, blocks, "none",
             IF Truthy(args.quiet)
             THEN <<[line |-> "{}", val |-> val]>>
             ELSE <<[line |-> "{} = {}", path |-> path, val |-> val]>>,
             <<"get">>, None)

\* cmd_list
cmd_list(d, blocks, path, args) ==
    LET keys   == list_keys(d, path)
        values == [i \in 1..Len(keys) |-> get(d, keys[i])]
        gets   == [i \in 1..Len(keys) |-> "get"]
    IN  IF Truthy(args.quiet)
        THEN IF Truthy(args.values)
             THEN Done(d, blocks, "none", <<[line |-> "join", items |-> values]>>,
                       <<"list_keys">> \o gets, None)
             ELSE Done(d, blocks, "none", <<[line |-> "join", items |-> keys]>>,
                       <<"list_keys">>, None)
        ELSE IF Truthy(args.values)
             THEN Done(d, blocks, "none",
                       <<[line |-> "Keys with {} prefix:", path |-> path]>> \o
                       [i \in 1..Len(keys) |->
                           [line |-> "{} = {}", path |-> keys[i], val |-> values[i]]],
                       <<"list_keys">> \o gets, None)
             ELSE Done(d, blocks, "none",
                       <<[line |-> "Keys with {} prefix: {}", path |-> path,
                          items |-> keys]>>,
                       <<"list_keys">>, None)

\* cmd_create
cmd_create(d, blocks, path, value, args) ==
    LET r == create(d, path, value)
    IN  Done(r.dict, blocks, r.exc, <<>>, <<"create">>, None)

\* cmd_update
cmd_update(d, blocks, path, value, args) ==
    LET r == update(d, path, value)
    IN  Done(r.dict, blocks, r.exc, <<>>, <<"update">>, None)

\* A cmd_delete that does nothing under --quiet.
cmd_delete_quiet_skips(d, blocks, path, args) ==
    IF Truthy(args.quiet) THEN Done(d, blocks, "none", <<>>, <<>>, None)
    ELSE LET r == delete(d, path)
         IN  Done(r.dict, blocks, r.exc, <<>>, <<"delete">>, None)

\* cmd_delete
cmd_delete(d, blocks, path, args) ==
    LET r == delete(d, path)
    IN  Done(r.dict, blocks, r.exc, <<>>, <<"delete">>, None)

\* cmd_create_pb
cmd_create_pb(d, blocks, workflow, args) ==
    LET pb_id == new_processing_block_id(blocks, workflow.type)
    IN  Done(d, create_processing_block(blocks, ProcessingBlock(pb_id, None, workflow)),
             "none", <<>>, <<"new_processing_block_id", "create_processing_block">>,
             pb_id)

\* main, "# Validate": the messages printed for the path.
validate_path(args) ==
    LET path == args.path.v
    IN  IF args.path = PyNone THEN <<>>
        ELSE (IF path[1] # "/" THEN <<"Path must start with '/'!">> ELSE <<>>)
          \o (IF args.list = PyNone /\ path[Len(path)] = "/"
              THEN <<"Key path must not end with '/'!">> ELSE <<>>)
          \o (IF ~ReMatch(path)
              THEN <<"Path contains non-permissable characters!">> ELSE <<>>)

\* main, "# Validate": the message printed for the workflow.
validate_workflow(args) ==
    IF args.workflow = PyNone THEN <<>>
    ELSE IF Len(Split(args.workflow.v, ":")) # 3
         THEN <<"Please specify workflow as 'type:name:version'!">>
         ELSE <<>>

\* main: the workflow descriptor built from a well-formed triple.
workflow_descriptor(args) ==
    LET workflow == Split(args.workflow.v, ":")
    IN  [type |-> workflow[1], name |-> workflow[2], version |-> workflow[3]]

\* main: the body of "for txn in cfg.txn()", one attempt.
dispatch(args, path, value, d, blocks) ==
    IF Truthy(args.ls) \/ Truthy(args.list) THEN cmd_list(d, blocks, path, args)
    ELSE IF Truthy(args.watch) \/ Truthy(args.get) THEN cmd_get(d, blocks, path, args)
    ELSE IF Truthy(args.create) THEN cmd_create(d, blocks, path, value, args)
    ELSE IF Truthy(args.update) THEN cmd_update(d, blocks, path, value, args)
    ELSE IF Truthy(args.delete) THEN cmd_delete(d, blocks, path, args)
    ELSE cmd_create_pb(d, blocks, workflow_descriptor(args), args)

\* main: "# Possibly give feedback after transaction has concluded".
feedback(args, pb_id) ==
    IF Truthy(args.quiet) THEN <<>>
    ELSE (IF Truthy(args.create) \/ Truthy(args.update) \/ Truthy(args.delete)
          THEN <<[line |-> "OK"]>> ELSE <<>>)
      \o (IF Truthy(args.create_pb)
          THEN <<[line |-> "OK, pb_id = {}", pb_id |-> pb_id]>> ELSE <<>>)

\* How a run of main ends: "return", "exit(1)", or the exception that left it.
Ended(exit, stderr, stdout, d, blocks, cfg, ops) ==
    [exit |-> exit, stderr |-> stderr, stdout |-> stdout, dict |-> d,
     pbs |-> blocks, cfg |-> cfg, ops |-> ops]

\* main(argv) on a store.  The transaction of the memory backend yields one
\* attempt and its loop() returns at once.
main(args, stdin, d, blocks) ==
    IF args.path # PyNone /\ args.path.v = <<>>
    THEN Ended("IndexError", <<>>, <<>>, d, blocks, FALSE, <<>>)
    ELSE LET msgs  == validate_path(args) \o validate_workflow(args)
             value == IF args.value = "-" THEN stdin ELSE args.value
         IN  IF msgs # <<>>
             THEN Ended("exit(1)", msgs \o <<"__doc__">>, <<>>, d, blocks, FALSE, <<>>)
             ELSE LET r == dispatch(args, args.path.v, value, d, blocks)
                  IN  IF r.exc # "none"
                      THEN Ended(r.exc, <<>>, r.out, r.dict, r.pbs, TRUE, r.ops)
                      ELSE Ended("return", <<>>, r.out \o feedback(args, r.pb_id),
                                 r.dict, r.pbs, TRUE, r.ops)

(***************************************************************************)
(* Invocations of sdpcfg.                                                  *)
(***************************************************************************)
\* Paths given on the command line: a valid one, a trailing '/', the root,
\* no leading '/', the empty string, a character outside the class, and a
\* valid path followed by a newline.
CliPaths ==
    { <<"/", "a">>,
      <<"/", "a", "/">>,
      <<"/">>,
      <<"a">>,
      <<>>,
      <<"/", "!">>,
      <<"/", "a", "\n">> }

\* Values given on the command line; "-" reads the value from stdin.
CliValues == {"v1", "-"}

Stdin == "v2"

\* Workflows given on the command line: 's:t:1', 's:t', '' and 's:t:1:1'.
CliWorkflows ==
    { <<"s", ":", "t", ":", "1">>,
      <<"s", ":", "t">>,
      <<>>,
      <<"s", ":", "t", ":", "1", ":", "1">> }

Invocation(cmd, watch, values, quiet, path, value, workflow) ==
    [cmd |-> cmd, watch |-> watch, values |-> values, quiet |-> quiet,
     path |-> path, value |-> value, workflow |-> workflow]

Invocations ==
    { Invocation(c, FALSE, FALSE, q, p, None, <<>>) :
        c \in {"get", "watch", "delete"}, q \in BOOLEAN, p \in CliPaths }
    \cup
    { Invocation(x[1], x[2], x[3], q, p, None, <<>>) :
        x \in {"ls", "list"} \X BOOLEAN \X BOOLEAN, q \in BOOLEAN, p \in CliPaths }
    \cup
    { Invocation(x[1], FALSE, FALSE, x[2], p, v, <<>>) :
        x \in {"create", "update"} \X BOOLEAN, p \in CliPaths, v \in CliValues }
    \cup
    { Invocation("create_pb", FALSE, FALSE, q, <<>>, None, w) :
        q \in BOOLEAN, w \in CliWorkflows }

NoRun == [inv |-> Invocation("none", FALSE, FALSE, FALSE, <<>>, None, <<>>),
          run |-> Ended("none", <<>>, <<>>, EmptyDict, NoBlocks, FALSE, <<>>),
          before |-> EmptyDict]

\* mock_pc_and_rw_loop before its first attempt.
\* listed and waits are history: the list the current pass began with, and
\* the number of waits entered after the stop event was set.
MockStart ==
    [pc |-> "top", pb_list |-> <<>>, pb_id |-> None, pb_state |-> PyNone,
     pb |-> PyNone, sb |-> PyNone, exc |-> "none", listed |-> <<>>, waits |-> 0]

(***************************************************************************)
(* MemoryTransaction (memory_backend.py).                                  *)
(***************************************************************************)
\* The transaction objects handed out by MemoryBackend.txn().
Txns == {"t1", "t2"}

\* The attempts one iteration of a transaction may be asked for.
MaxAttempts == 2

\* An iterator that yields the transaction on every call.
__iter__again(yielded) == TRUE

\* MemoryTransaction.__iter__: the generator yields the transaction once;
\* asked again it returns.  yielded is the number of attempts it has given.
__iter__(yielded) == yielded = 0

\* MemoryTransaction.commit
commit(d) == d

\* A loop() that drops what the backend holds.
loop_clears(d, wait, timeout) == EmptyDict

\* MemoryTransaction.loop
loop(d, wait, timeout) == d

\* MemoryTransaction.__init__; wrote is history: the writes of the current
\* attempt that no other transaction has overwritten since.
NewTxn == [it |-> "new", attempts |-> 0, wrote |-> EmptyDict]

\* The paths and the arguments of loop() a transaction body uses.
TxnPaths == { <<"/", "a">>, <<"/", "a", "/", "b">>, <<"a">> }

LoopTimeouts == {PyNone, [t |-> "int", v |-> 5]}

(***************************************************************************)
(* sdpcfg as a process: the transaction loop of main, step by step, on the *)
(* backend that SDP_CONFIG_BACKEND selects.                                *)
(***************************************************************************)
Backends == {"memory", "etcd3"}

\* The lines a watch may print before the model stops following it.
MaxPrints == 2

\* An except clause that swallows the interrupt for every reading command.
except_KeyboardInterrupt_reading(args) ==
    IF ~(Truthy(args.watch) \/ Truthy(args.get) \/ Truthy(args.ls))
    THEN "raise" ELSE "swallow"

\* main: "except KeyboardInterrupt: if not args['watch']: raise"
except_KeyboardInterrupt(args) ==
    IF ~Truthy(args.watch) THEN "raise" ELSE "swallow"

\* Transaction.loop(wait=True) of the client: on the memory backend it is
\* MemoryTransaction.loop and returns at once; on etcd3 it blocks until the
\* data the attempt read changes.
loop_blocks(backend) == backend = "etcd3"

\* The next attempt of "for txn in cfg.txn()" after an attempt that ran to
\* its end: the memory backend's generator has yielded its one attempt;
\* etcd3 yields a fresh attempt when the attempt asked to loop, and when its
\* commit fails because the key it used was changed underneath it.
next_attempt(backend, yielded, looped, contended) ==
    IF backend = "memory" THEN __iter__(yielded) ELSE looped \/ contended

NoProc ==
    [pc |-> "idle", inv |-> Invocation("none", FALSE, FALSE, FALSE, <<>>, None, <<>>),
     backend |-> "memory", yielded |-> 0, looped |-> FALSE, shown |-> <<>>,
     prints |-> 0, oks |-> 0, pb_id |-> None, intr |-> FALSE, at |-> "none",
     exc |-> "none", seen |-> None]

(***************************************************************************)
(* register.py and the Tango database it writes.                           *)
(***************************************************************************)
SERVER == "SDPSubarray/1"

CLASS == "SDPSubarray"

\* The largest device count of the small runs; 11 is run as well, for the
\* two-digit indices.
MaxDevices == 3

DeviceCounts == (0..MaxDevices) \cup {11}

\* '{:02d}'.format(index)
Format02d(index) == IF index < 10 THEN <<"0">> \o Str(index) ELSE Str(index)

\* 'mid_sdp/elt/subarray_{:02d}'.format(index)
DeviceName(index) == <<"mid_sdp/elt/subarray_">> \o Format02d(index)

NoDb == [s \in {} |-> {}]

\* Database().get_server_list(server_name): the servers that match the name.
get_server_list(d, server_name) == { s \in DOMAIN d : s = server_name }

\* Database().get_device_name(server_name, class_name)
get_device_name(d, server_name, class_name) ==
    IF server_name \in DOMAIN d
    THEN { e.name : e \in { x \in d[server_name] : x.class = class_name } }
    ELSE {}

\* Database().delete_server(server_name): the server and all its devices go.
db_delete_server(d, server_name) == [s \in DOMAIN d \ {server_name} |-> d[s]]

\* Database().add_device(device_info): the device is entered under its
\* server; an entry of the same name is replaced, and a server that loses
\* its last device is no longer listed.
add_device(d, device_info) ==
    LET others(s) == { e \in d[s] : e.name # device_info.name }
        servers   == { s \in DOMAIN d : others(s) # {} } \cup {device_info.server}
    IN  [s \in servers |->
            IF s = device_info.server
            THEN (IF s \in DOMAIN d THEN others(s) ELSE {})
                     \cup {[name |-> device_info.name, class |-> device_info.class]}
            ELSE others(s)]

\* is_subarray_device_registered
is_subarray_device_registered(d, server_name) ==
    server_name \in get_server_list(d, server_name)

\* A delete_server that leaves the database as it is.
delete_server_never(d, server_name) == d

\* delete_server
delete_server(d, server_name) ==
    IF is_subarray_device_registered(d, server_name)
    THEN db_delete_server(d, server_name)
    ELSE d

\* register_subarray_devices: the body of "for index in range(num_devices)".
register_device(d, server_name, class_name, index) ==
    add_device(d, [name |-> DeviceName(index), class |-> class_name,
                   server |-> server_name])

\* register_subarray_devices, from index on.
RECURSIVE register_from(_, _, _, _, _)
register_from(d, server_name, class_name, num_devices, index) ==
    IF index >= num_devices THEN d
    ELSE register_from(register_device(d, server_name, class_name, index),
                       server_name, class_name, num_devices, index + 1)

\* register_subarray_devices
register_subarray_devices(d, server_name, class_name, num_devices) ==
    register_from(d, server_name, class_name, num_devices, 0)

\* The script: delete_server, and without --delete register_subarray_devices.
register_main(d, delete_flag, num_devices) ==
    IF delete_flag THEN delete_server(d, SERVER)
    ELSE register_subarray_devices(delete_server(d, SERVER), SERVER, CLASS,
                                   num_devices)

NoReg == [pc |-> "idle", delete |-> FALSE, num_devices |-> 0, index |-> 0,
          before |-> NoDb]

(***************************************************************************)
(* The SDPSubarray device as its tests drive it.                           *)
(***************************************************************************)
ObsStates == {"IDLE", "CONFIGURING", "READY", "SCANNING", "PAUSED", "ABORTED", "FAULT"}

AdminModes == {"ONLINE", "OFFLINE", "MAINTENANCE", "NOT_FITTED", "RESERVED"}

\* The argument of a command call: the empty string, or no argument.
NoArgument == [t |-> "missing"]

CommandArgs == {PyStr(<<>>), NoArgument}

\* The attributes of the device.
Attributes(d) ==
    [obsState |-> d.obsState, adminMode |-> d.adminMode,
     healthState |-> d.healthState, State |-> d.State]

\* The device after Init().
init_device(d) ==
    [obsState |-> "IDLE", adminMode |-> "ONLINE", healthState |-> "OK",
     State |-> "OFF", cmd |-> "Init", arg |-> NoArgument, exc |-> "none",
     before |-> Attributes(d)]

\* The framework's check of a command that takes a string: a call without
\* the argument fails with DevFailed before the command body runs.
command_exc(arg) == IF arg = NoArgument THEN "DevFailed" ELSE "none"

\* A command body that takes the device back to IDLE.
noop_resets_obsState(d, resources) == [d EXCEPT !.obsState = "IDLE"]

\* The body of AssignResources and of ReleaseResources: a no-op.
noop_command(d, resources) == d

DevStart ==
    [obsState |-> "IDLE", adminMode |-> "ONLINE", healthState |-> "OK",
     State |-> "OFF", cmd |-> "none", arg |-> NoArgument, exc |-> "none",
     before |-> [obsState |-> "IDLE", adminMode |-> "ONLINE",
                 healthState |-> "OK", State |-> "OFF"]]

(***************************************************************************)
(* The logging shim: threads of a device server call the redirected stream *)
(* methods, and the handler formats each record on the thread that logged  *)
(* it.                                                                     *)
(***************************************************************************)
\* logging.DEBUG .. logging.CRITICAL, the levels init() binds make_fn to.
Levels == [DEBUG |-> 10, INFO |-> 20, WARNING |-> 30, ERROR |-> 40,
           CRITICAL |-> 50]

StreamLevels == { Levels.DEBUG, Levels.INFO, Levels.ERROR }

\* init(level=tango.LogLevel.LOG_INFO): the level of the logger.
init_level == Levels.INFO

\* __file__ of tango_logging.py, as path components.
__file__ == <<"ska_sdp_logging", "tango_logging.py">>

DevicePy == <<"app", "SDPSubarray", "SDPSubarray.py">>

WorkerPy == <<"app", "worker.py">>

\* The places in device code that call a stream method or log directly.
CallSites ==
    { [function |-> "init_device", filename |-> DevicePy, lineno |-> 120],
      [function |-> "Configure", filename |-> DevicePy, lineno |-> 300],
      [function |-> "run", filename |-> WorkerPy, lineno |-> 7] }

\* The frames of _log_it and of the lambda of make_fn.
LogItFrame == [function |-> "_log_it", filename |-> __file__, lineno |-> 76]

LambdaFrame == [function |-> "<lambda>", filename |-> __file__, lineno |-> 71]

\* inspect.stack() inside _log_it, innermost frame first.
inspect_stack(caller) == <<LogItFrame, LambdaFrame, caller>>

\* pathlib.Path(filename).name
PathName(filename) == filename[Len(filename)]

\* One key for every thread.
current_thread_shared(t) == "MainThread"

\* threading.current_thread()
current_thread(t) == t

\* "self.frames[threading.current_thread()] = inspect.stack()[2]"
store_frame(fr, t, caller) ==
    SetItem(fr, current_thread(t), inspect_stack(caller)[2 + 1])

\* The LogRecord logging.log makes for a call at the given frame: pathname,
\* funcName and lineno are those of the frame that called the logging module.
LogRecord(at, level) ==
    [pathname |-> at.filename, filename |-> PathName(at.filename),
     funcName |-> at.function, lineno |-> at.lineno, levelno |-> level]

\* TangoFormatter.format, up to the call of the structured formatter.
format(fr, t, record) ==
    IF record.pathname = __file__
    THEN LET thread == current_thread(t)
         IN  IF thread \in DOMAIN fr
             THEN LET frame == fr[thread]
                  IN  [record EXCEPT !.funcName = frame.function,
                                     !.filename = PathName(frame.filename),
                                     !.lineno = frame.lineno]
             ELSE record
    ELSE record

\* What the structured formatter reports of a record's origin.
SkaFormatter_format(record) ==
    [funcName |-> record.funcName, filename |-> record.filename,
     lineno |-> record.lineno]

NoRecord == [pathname |-> <<>>]

Idle == [pc |-> "idle", caller |-> None, level |-> 0, record |-> NoRecord]

Threads == {"T1", "T2"}

(***************************************************************************)
(* The backend driven directly by a client.                                *)
(***************************************************************************)
NoCall == [op |-> "none", path |-> <<>>, value |-> None]

NoResult == [exc |-> "none", ret |-> None]

\* The history variable after a call with outcome r on path p.
Record(r, p, v) ==
    IF r.exc = "none" /\ p \in ValidPaths THEN [last EXCEPT ![p] = v] ELSE last

Init ==
    /\ dict = EmptyDict
    /\ last = [p \in ValidPaths |-> None]
    /\ call = NoCall
    /\ result = NoResult
    /\ cli = NoRun
    /\ pbs = NoBlocks
    /\ pbStates = NoBlocks
    /\ sbs = NoBlocks
    /\ end = FALSE
    /\ mock = MockStart
    /\ processed = <<>>
    /\ txns = [t \in Txns |-> NewTxn]
    /\ proc = NoProc
    /\ db = NoDb
    /\ reg = NoReg
    /\ dev = DevStart
    /\ frames = EmptyDict
    /\ threads = [t \in Threads |-> Idle]
    /\ formatted = [t \in Threads |-> [made |-> NoRecord]]

Create(p, v) ==
    LET r == create(dict, p, v)
    IN  /\ Cardinality(DOMAIN r.dict) <= MaxKeys
        /\ dict' = r.dict
        /\ last' = Record(r, p, v)
        /\ call' = [op |-> "create", path |-> p, value |-> v]
        /\ result' = [exc |-> r.exc, ret |-> None]
        /\ UNCHANGED <<cliVars, mockVars>>
        /\ UNCHANGED <<txnVars, procVars, tangoVars, logVars>>

Update(p, v) ==
    LET r == update(dict, p, v)
    IN  /\ dict' = r.dict
        /\ last' = Record(r, p, v)
        /\ call' = [op |-> "update", path |-> p, value |-> v]
        /\ result' = [exc |-> r.exc, ret |-> None]
        /\ UNCHANGED <<cliVars, mockVars>>
        /\ UNCHANGED <<txnVars, procVars, tangoVars, logVars>>

Delete(p) ==
    LET r == delete(dict, p)
    IN  /\ dict' = r.dict
        /\ last' = Record(r, p, None)
        /\ call' = [op |-> "delete", path |-> p, value |-> None]
        /\ result' = [exc |-> r.exc, ret |-> None]
        /\ UNCHANGED <<cliVars, mockVars>>
        /\ UNCHANGED <<txnVars, procVars, tangoVars, logVars>>

Get(p) ==
    /\ call' = [op |-> "get", path |-> p, value |-> None]
    /\ result' = [exc |-> "none", ret |-> get(dict, p)]
    /\ UNCHANGED <<dict, last>>
    /\ UNCHANGED <<cliVars, mockVars>>
    /\ UNCHANGED <<txnVars, procVars, tangoVars, logVars>>

ListKeys(p) ==
    /\ call' = [op |-> "list_keys", path |-> p, value |-> None]
    /\ result' = [exc |-> "none", ret |-> list_keys(dict, p)]
    /\ UNCHANGED <<dict, last>>
    /\ UNCHANGED <<cliVars, mockVars>>
    /\ UNCHANGED <<txnVars, procVars, tangoVars, logVars>>

Next ==
    \/ \E p \in PathInputs, v \in Values : Create(p, v)
    \/ \E p \in PathInputs, v \in Values : Update(p, v)
    \/ \E p \in PathInputs : Delete(p)
    \/ \E p \in ValidPaths : Get(p)
    \/ \E p \in ListInputs : ListKeys(p)

Spec == Init /\ [][Next]_vars

(***************************************************************************)
(* The store driven through the command line tool.                         *)
(***************************************************************************)
\* One run of sdpcfg.
CliRun(inv) ==
    LET args == docopt(inv)
        run  == main(args, Stdin, dict, pbs)
    IN  /\ (inv.cmd = "create_pb" /\ validate_workflow(args) = <<>>)
               => \E i \in 1..Len(PbIds) : PbIds[i] \notin DOMAIN pbs
        /\ cli' = [inv |-> inv, run |-> run, before |-> dict]
        /\ dict' = cli'.run.dict
        /\ pbs' = cli'.run.pbs
        /\ UNCHANGED <<last, call, result>>
        /\ UNCHANGED mockVars
        /\ UNCHANGED <<txnVars, procVars, tangoVars, logVars>>

NextCli == \E inv \in Invocations : CliRun(inv)

SpecCli == Init /\ [][NextCli]_vars

(***************************************************************************)
(* The mock loop on its thread, beside the clients that fill the store and *)
(* the fixture that stops the loop.                                        *)
(***************************************************************************)
SbIds == {"sb1", "sb2"}

\* Workflow descriptors of processing blocks: a receive workflow, another
\* workflow, and the descriptor sdpcfg create_pb builds (no 'id').
Workflows ==
    { [id |-> "test_receive_addresses", type |-> "realtime", version |-> "0.0.1"],
      [id |-> "vis_receive", type |-> "realtime", version |-> "0.0.1"],
      [type |-> <<"s">>, name |-> <<"t">>, version |-> <<"1">>] }

\* A scheduling block as a client creates it.
NewSb(sbi_id) == [id |-> sbi_id, scan_types |-> "scan_types"]

\* A client creates a scheduling block.
ClientCreateSb(sbi_id) ==
    /\ sbi_id \notin DOMAIN sbs
    /\ sbs' = SetItem(sbs, sbi_id, NewSb(sbi_id))
    /\ UNCHANGED <<backendVars, cliVars, pbStates, end, mock, processed>>
    /\ UNCHANGED <<txnVars, procVars, tangoVars, logVars>>

\* A client creates a processing block.
ClientCreatePb(sbi_id, workflow) ==
    /\ \E i \in 1..Len(PbIds) : PbIds[i] \notin DOMAIN pbs
    /\ pbs' = create_processing_block(pbs,
                  ProcessingBlock(new_processing_block_id(pbs, workflow.type),
                                  sbi_id, workflow))
    /\ UNCHANGED <<backendVars, cli, mockVars>>
    /\ UNCHANGED <<txnVars, procVars, tangoVars, logVars>>

\* Another controller creates the state of a processing block that has none.
ClientCreateState(pb_id) ==
    /\ pb_id \in DOMAIN pbs
    /\ create_processing_block_state_exc(pbStates, pb_id) = "none"
    /\ pbStates' = create_processing_block_state(pbStates, pb_id, [status |-> "FINISHED"])
    /\ UNCHANGED <<backendVars, cliVars, sbs, end, mock, processed>>
    /\ UNCHANGED <<txnVars, procVars, tangoVars, logVars>>

\* The fixture's teardown: end.set().
FixtureEnd ==
    /\ ~end
    /\ end' = TRUE
    /\ UNCHANGED <<backendVars, cliVars, pbStates, sbs, mock, processed>>
    /\ UNCHANGED <<txnVars, procVars, tangoVars, logVars>>

\* The top of an attempt: "if end.is_set(): break", then
\* "pb_list = txn.list_processing_blocks()".
MockTop ==
    /\ mock.pc = "top"
    /\ IF end
       THEN /\ mock' = [mock EXCEPT !.pc = "done"]
            /\ UNCHANGED processed
       ELSE /\ mock' = [mock EXCEPT !.pc = "for",
                                    !.pb_list = list_processing_blocks(pbs),
                                    !.listed = list_processing_blocks(pbs)]
            /\ processed' = <<>>
    /\ UNCHANGED <<backendVars, cliVars, pbStates, sbs, end>>
    /\ UNCHANGED <<txnVars, procVars, tangoVars, logVars>>

\* A for loop that looks at the stop event before every block.
MockFor_checks_end ==
    /\ mock.pc = "for"
    /\ IF end
       THEN /\ mock' = [mock EXCEPT !.pc = "done"]
            /\ UNCHANGED processed
       ELSE IF mock.pb_list = <<>>
       THEN /\ mock' = [mock EXCEPT !.pc = "loop",
                                    !.waits = IF end THEN @ + 1 ELSE @]
            /\ UNCHANGED processed
       ELSE LET pb_id    == Head(mock.pb_list)
                pb_state == get_processing_block_state(pbStates, pb_id)
            IN  IF pb_state # PyNone
                THEN /\ mock' = [mock EXCEPT !.pb_list = Tail(mock.pb_list),
                                             !.pb_id = pb_id,
                                             !.pb_state = pb_state]
                     /\ UNCHANGED processed
                ELSE /\ mock' = [mock EXCEPT !.pc = "get_pb",
                                             !.pb_list = Tail(mock.pb_list),
                                             !.pb_id = pb_id,
                                             !.pb_state = new_pb_state]
                     /\ processed' = Append(processed, pb_id)
    /\ UNCHANGED <<backendVars, cliVars, pbStates, sbs, end>>
    /\ UNCHANGED <<txnVars, procVars, tangoVars, logVars>>

\* A for loop without "if pb_state is None": every listed block is handled.
MockFor_ignores_state ==
    /\ mock.pc = "for"
    /\ IF mock.pb_list = <<>>
       THEN /\ mock' = [mock EXCEPT !.pc = "loop",
                                    !.waits = IF end THEN @ + 1 ELSE @]
            /\ UNCHANGED processed
       ELSE LET pb_id    == Head(mock.pb_list)
                pb_state == get_processing_block_state(pbStates, pb_id)
            IN  IF FALSE
                THEN /\ mock' = [mock EXCEPT !.pb_list = Tail(mock.pb_list),
                                             !.pb_id = pb_id,
                                             !.pb_state = pb_state]
                     /\ UNCHANGED processed
                ELSE /\ mock' = [mock EXCEPT !.pc = "get_pb",
                                             !.pb_list = Tail(mock.pb_list),
                                             !.pb_id = pb_id,
                                             !.pb_state = new_pb_state]
                     /\ processed' = Append(processed, pb_id)
    /\ UNCHANGED <<backendVars, cliVars, pbStates, sbs, end>>
    /\ UNCHANGED <<txnVars, procVars, tangoVars, logVars>>

\* "for pb_id in pb_list", "pb_state = txn.get_processing_block_state(pb_id)"
\* and "if pb_state is None"; after the last block, on to txn.loop.
MockFor ==
    /\ mock.pc = "for"
    /\ IF mock.pb_list = <<>>
       THEN /\ mock' = [mock EXCEPT !.pc = "loop",
                                    !.waits = IF end THEN @ + 1 ELSE @]
            /\ UNCHANGED processed
       ELSE LET pb_id    == Head(mock.pb_list)
                pb_state == get_processing_block_state(pbStates, pb_id)
            IN  IF pb_state # PyNone
                THEN /\ mock' = [mock EXCEPT !.pb_list = Tail(mock.pb_list),
                                             !.pb_id = pb_id,
                                             !.pb_state = pb_state]
                     /\ UNCHANGED processed
                ELSE /\ mock' = [mock EXCEPT !.pc = "get_pb",
                                             !.pb_list = Tail(mock.pb_list),
                                             !.pb_id = pb_id,
                                             !.pb_state = new_pb_state]
                     /\ processed' = Append(processed, pb_id)
    /\ UNCHANGED <<backendVars, cliVars, pbStates, sbs, end>>
    /\ UNCHANGED <<txnVars, procVars, tangoVars, logVars>>

\* "pb = txn.get_processing_block(pb_id)" and
\* "if pb.workflow['id'] in RECEIVE_WORKFLOWS".
MockGetPb ==
    /\ mock.pc = "get_pb"
    /\ LET pb == get_processing_block(pbs, mock.pb_id)
       IN  IF "id" \notin DOMAIN pb.workflow
           THEN mock' = [mock EXCEPT !.pc = "raised", !.pb = pb, !.exc = "KeyError"]
           ELSE IF is_receive_workflow(pb)
                THEN mock' = [mock EXCEPT !.pc = "get_sb", !.pb = pb]
                ELSE mock' = [mock EXCEPT !.pc = "create_state", !.pb = pb]
    /\ UNCHANGED <<backendVars, cliVars, pbStates, sbs, end, processed>>
    /\ UNCHANGED <<txnVars, procVars, tangoVars, logVars>>

\* "sb = txn.get_scheduling_block(pb.sbi_id)" and
\* "sb['pb_receive_addresses'] = pb_id".
MockGetSb ==
    /\ mock.pc = "get_sb"
    /\ LET sb == get_scheduling_block(sbs, mock.pb.sbi_id)
       IN  IF sb = PyNone
           THEN mock' = [mock EXCEPT !.pc = "raised", !.sb = sb, !.exc = "TypeError"]
           ELSE mock' = [mock EXCEPT !.pc = "update_sb",
                                     !.sb = set_pb_receive_addresses(sb, mock.pb)]
    /\ UNCHANGED <<backendVars, cliVars, pbStates, sbs, end, processed>>
    /\ UNCHANGED <<txnVars, procVars, tangoVars, logVars>>

\* "txn.update_scheduling_block(pb.sbi_id, sb)" and
\* "pb_state['receive_addresses'] = RECEIVE_ADDRESSES".
MockUpdateSb ==
    /\ mock.pc = "update_sb"
    /\ sbs' = update_scheduling_block(sbs, mock.pb.sbi_id, mock.sb)
    /\ mock' = [mock EXCEPT !.pc = "create_state",
                            !.pb_state = set_receive_addresses(mock.pb_state)]
    /\ UNCHANGED <<backendVars, cliVars, pbStates, end, processed>>
    /\ UNCHANGED <<txnVars, procVars, tangoVars, logVars>>

\* "txn.create_processing_block_state(pb_id, pb_state)".
MockCreateState ==
    /\ mock.pc = "create_state"
    /\ IF create_processing_block_state_exc(pbStates, mock.pb_id) # "none"
       THEN /\ mock' = [mock EXCEPT !.pc = "raised",
                            !.exc = create_processing_block_state_exc(pbStates, mock.pb_id)]
            /\ UNCHANGED pbStates
       ELSE /\ pbStates' = create_processing_block_state(pbStates, mock.pb_id,
                                                         mock.pb_state)
            /\ mock' = [mock EXCEPT !.pc = "for"]
    /\ UNCHANGED <<backendVars, cliVars, sbs, end, processed>>
    /\ UNCHANGED <<txnVars, procVars, tangoVars, logVars>>

\* A loop() without timeout: it returns only when a block has been added.
MockLoop_waits_for_change ==
    /\ mock.pc = "loop"
    /\ list_processing_blocks(pbs) # mock.listed
    /\ mock' = [mock EXCEPT !.pc = "top"]
    /\ UNCHANGED <<backendVars, cliVars, pbStates, sbs, end, processed>>
    /\ UNCHANGED <<txnVars, procVars, tangoVars, logVars>>

\* "txn.loop(wait=True, timeout=timeout)" returns, on a change or on the
\* timeout, and the next attempt begins.
MockLoop ==
    /\ mock.pc = "loop"
    /\ mock' = [mock EXCEPT !.pc = "top"]
    /\ UNCHANGED <<backendVars, cliVars, pbStates, sbs, end, processed>>
    /\ UNCHANGED <<txnVars, procVars, tangoVars, logVars>>

NextMock ==
    \/ \E sbi_id \in SbIds : ClientCreateSb(sbi_id)
    \/ \E sbi_id \in SbIds \cup {None}, workflow \in Workflows :
           ClientCreatePb(sbi_id, workflow)
    \/ \E i \in 1..Len(PbIds) : ClientCreateState(PbIds[i])
    \/ FixtureEnd
    \/ MockTop
    \/ MockFor
    \/ MockGetPb
    \/ MockGetSb
    \/ MockUpdateSb
    \/ MockCreateState
    \/ MockLoop

SpecMock == Init /\ [][NextMock]_vars

\* A step of the loop's thread.
MockStep ==
    \/ MockTop
    \/ MockFor
    \/ MockGetPb
    \/ MockGetSb
    \/ MockUpdateSb
    \/ MockCreateState
    \/ MockLoop

\* The thread is scheduled as long as it can run, and a loop(wait=True,
\* timeout=timeout) returns within its timeout.
SpecMockLive == SpecMock /\ WF_vars(MockStep)

(***************************************************************************)
(* Two transactions of one backend, their operations interleaved, beside a *)
(* client that calls the backend directly.                                 *)
(***************************************************************************)
\* History: transaction t wrote value at path; the write supersedes what
\* another transaction wrote there.
Wrote(t, path, value) ==
    [u \in Txns |->
        IF u = t
        THEN [txns[u] EXCEPT !.wrote = SetItem(@, path, value)]
        ELSE [txns[u] EXCEPT !.wrote = [k \in DOMAIN @ \ {path} |-> @[k]]]]

\* The transaction after an operation of its body with outcome r: an
\* exception leaves the body, and the attempt is abandoned.
AfterWrite(t, r, path, value) ==
    IF r.exc = "none" THEN Wrote(t, path, value)
    ELSE [txns EXCEPT ![t].it = "abandoned"]

\* A transaction that reads only what it wrote itself.
txn_get_isolated(t, path) ==
    IF path \in DOMAIN txns[t].wrote THEN txns[t].wrote[path] ELSE None

\* MemoryTransaction.get: self.backend.get(path)
txn_get(t, path) == get(dict, path)

\* MemoryTransaction.list_keys: self.backend.list_keys(path)
txn_list_keys(t, path) == list_keys(dict, path)

\* MemoryBackend.txn(): a new transaction bound to the backend.
TxnNew(t) ==
    /\ txns[t].it \in {"done", "abandoned"}
    /\ txns' = [txns EXCEPT ![t] = NewTxn]
    /\ call' = [op |-> "txn", path |-> <<>>, value |-> None, by |-> t]
    /\ result' = NoResult
    /\ UNCHANGED <<dict, last, cliVars, mockVars, procVars, tangoVars, logVars>>

\* "for txn in ...": the for statement asks the iterator for an attempt.
TxnIter(t) ==
    /\ txns[t].it \in {"new", "attempt"}
    /\ txns[t].attempts < MaxAttempts
    /\ txns' = IF __iter__(txns[t].attempts)
               THEN [txns EXCEPT ![t] = [it |-> "attempt",
                                         attempts |-> @.attempts + 1,
                                         wrote |-> EmptyDict]]
               ELSE [txns EXCEPT ![t].it = "done"]
    /\ call' = [op |-> "iter", path |-> <<>>, value |-> None, by |-> t]
    /\ result' = NoResult
    /\ UNCHANGED <<dict, last, cliVars, mockVars, procVars, tangoVars, logVars>>

\* MemoryTransaction.create
TxnCreate(t, p, v) ==
    LET r == create(dict, p, v)
    IN  /\ txns[t].it = "attempt"
        /\ dict' = r.dict
        /\ last' = Record(r, p, v)
        /\ txns' = AfterWrite(t, r, p, v)
        /\ call' = [op |-> "create", path |-> p, value |-> v, by |-> t]
        /\ result' = [exc |-> r.exc, ret |-> None]
        /\ UNCHANGED <<cliVars, mockVars, procVars, tangoVars, logVars>>

\* MemoryTransaction.update
TxnUpdate(t, p, v) ==
    LET r == update(dict, p, v)
    IN  /\ txns[t].it = "attempt"
        /\ dict' = r.dict
        /\ last' = Record(r, p, v)
        /\ txns' = AfterWrite(t, r, p, v)
        /\ call' = [op |-> "update", path |-> p, value |-> v, by |-> t]
        /\ result' = [exc |-> r.exc, ret |-> None]
        /\ UNCHANGED <<cliVars, mockVars, procVars, tangoVars, logVars>>

\* MemoryTransaction.delete
TxnDelete(t, p) ==
    LET r == delete(dict, p)
    IN  /\ txns[t].it = "attempt"
        /\ dict' = r.dict
        /\ last' = Record(r, p, None)
        /\ txns' = AfterWrite(t, r, p, None)
        /\ call' = [op |-> "delete", path |-> p, value |-> None, by |-> t]
        /\ result' = [exc |-> r.exc, ret |-> None]
        /\ UNCHANGED <<cliVars, mockVars, procVars, tangoVars, logVars>>

\* MemoryTransaction.get
TxnGet(t, p) ==
    /\ txns[t].it = "attempt"
    /\ call' = [op |-> "get", path |-> p, value |-> None, by |-> t]
    /\ result' = [exc |-> "none", ret |-> txn_get(t, p)]
    /\ UNCHANGED <<dict, last, txns, cliVars, mockVars, procVars, tangoVars, logVars>>

\* MemoryTransaction.list_keys
TxnListKeys(t, p) ==
    /\ txns[t].it = "attempt"
    /\ call' = [op |-> "list_keys", path |-> p, value |-> None, by |-> t]
    /\ result' = [exc |-> "none", ret |-> txn_list_keys(t, p)]
    /\ UNCHANGED <<dict, last, txns, cliVars, mockVars, procVars, tangoVars, logVars>>

\* MemoryTransaction.loop, with any arguments
TxnLoop(t, wait, timeout) ==
    /\ txns[t].it = "attempt"
    /\ dict' = loop(dict, wait, timeout)
    /\ call' = [op |-> "loop", path |-> <<>>, value |-> None, by |-> t,
                wait |-> wait, timeout |-> timeout]
    /\ result' = NoResult
    /\ UNCHANGED <<last, txns, cliVars, mockVars, procVars, tangoVars, logVars>>

\* MemoryTransaction.commit
TxnCommit(t) ==
    /\ txns[t].it = "attempt"
    /\ dict' = commit(dict)
    /\ call' = [op |-> "commit", path |-> <<>>, value |-> None, by |-> t]
    /\ result' = NoResult
    /\ UNCHANGED <<last, txns, cliVars, mockVars, procVars, tangoVars, logVars>>

NextTxn ==
    \/ \E t \in Txns : TxnNew(t)
    \/ \E t \in Txns : TxnIter(t)
    \/ \E t \in Txns, p \in TxnPaths, v \in Values : TxnCreate(t, p, v)
    \/ \E t \in Txns, p \in TxnPaths, v \in Values : TxnUpdate(t, p, v)
    \/ \E t \in Txns, p \in TxnPaths : TxnDelete(t, p)
    \/ \E t \in Txns, p \in TxnPaths \cap ValidPaths : TxnGet(t, p)
    \/ \E t \in Txns, p \in TxnPaths \cap ValidPaths : TxnListKeys(t, p)
    \/ \E t \in Txns, wait \in BOOLEAN, timeout \in LoopTimeouts :
           TxnLoop(t, wait, timeout)
    \/ \E t \in Txns : TxnCommit(t)
    \/ \E p \in TxnPaths \cap ValidPaths : Get(p)
    \/ \E p \in TxnPaths \cap ValidPaths : ListKeys(p)

SpecTxn == Init /\ [][NextTxn]_vars

(***************************************************************************)
(* A run of sdpcfg followed through its transaction loop, beside a client  *)
(* that changes the store and a user who may interrupt the run.            *)
(***************************************************************************)
\* The invocations followed: every command, with and without watch, without
\* --quiet; they pass validation and name the path /a.
ProcInvocations ==
    { inv \in Invocations :
        /\ inv.cmd # "list"
        /\ ~inv.quiet
        /\ ~inv.values
        /\ inv.value \in {None, "v1"}
        /\ inv.cmd = "create_pb" => inv.workflow = <<"s", ":", "t", ":", "1">>
        /\ inv.cmd # "create_pb" => inv.path = <<"/", "a">> }

\* The writes of the other client: to the watched key /a, and the creation
\* and deletion of its child /a/b.
WatchedPaths == { <<"/", "a">>, <<"/", "a", "/", "b">> }

ClientWrites ==
    { w \in {"create", "update", "delete"} \X WatchedPaths \X Values :
        w[2] = <<"/", "a", "/", "b">> => (w[1] # "update" /\ w[3] = "v1") }

\* What the body of the attempt reads and prints on the store as it is.
Attempt(inv) ==
    dispatch(docopt(inv), docopt(inv).path.v, inv.value, dict, pbs)

\* main up to the first attempt: docopt, validation, Config(), cfg.txn().
ProcStart(inv, backend) ==
    /\ proc.pc = "idle"
    /\ validate_path(docopt(inv)) \o validate_workflow(docopt(inv)) = <<>>
    /\ proc' = [NoProc EXCEPT !.pc = "body", !.inv = inv, !.backend = backend,
                              !.yielded = 1]
    /\ UNCHANGED <<backendVars, cliVars, mockVars, txnVars, tangoVars, logVars>>

\* The value of the key the command names, None for a command without path.
UsedValue(inv, d) ==
    IF inv.cmd = "create_pb" THEN None ELSE get(d, inv.path)

\* A body that gives the feedback itself, at the end of every attempt.
ProcBody_prints_OK ==
    /\ proc.pc = "body"
    /\ proc.prints < MaxPrints
    /\ proc.inv.cmd = "create_pb" => \E i \in 1..Len(PbIds) : PbIds[i] \notin DOMAIN pbs
    /\ LET r == Attempt(proc.inv)
       IN  /\ dict' = r.dict
           /\ pbs' = r.pbs
           /\ proc' = IF r.exc # "none"
                      THEN [proc EXCEPT !.pc = "raised", !.exc = r.exc]
                      ELSE [proc EXCEPT
                               !.pc = IF Truthy(docopt(proc.inv).watch)
                                      THEN "loop" ELSE "next",
                               !.shown = r.out,
                               !.prints = IF r.out # <<>> THEN @ + 1 ELSE @,
                               !.pb_id = r.pb_id,
                               !.oks = @ + Len(feedback(docopt(proc.inv),
                                                        r.pb_id)),
                               !.seen = UsedValue(proc.inv, r.dict)]
    /\ UNCHANGED <<last, call, result, cli, mockVars, txnVars, tangoVars, logVars>>

\* The body of "for txn in cfg.txn()": the command.
ProcBody ==
    /\ proc.pc = "body"
    /\ proc.prints < MaxPrints
    /\ proc.inv.cmd = "create_pb" => \E i \in 1..Len(PbIds) : PbIds[i] \notin DOMAIN pbs
    /\ LET r == Attempt(proc.inv)
       IN  /\ dict' = r.dict
           /\ pbs' = r.pbs
           /\ proc' = IF r.exc # "none"
                      THEN [proc EXCEPT !.pc = "raised", !.exc = r.exc]
                      ELSE [proc EXCEPT
                               !.pc = IF Truthy(docopt(proc.inv).watch)
                                      THEN "loop" ELSE "next",
                               !.shown = r.out,
                               !.prints = IF r.out # <<>> THEN @ + 1 ELSE @,
                               !.pb_id = r.pb_id,
                               !.seen = UsedValue(proc.inv, r.dict)]
    /\ UNCHANGED <<last, call, result, cli, mockVars, txnVars, tangoVars, logVars>>

\* "if args['watch']: txn.loop(wait=True)"
ProcLoop ==
    /\ proc.pc = "loop"
    /\ proc' = [proc EXCEPT !.pc = IF loop_blocks(proc.backend) THEN "wait" ELSE "next",
                            !.looped = TRUE]
    /\ dict' = IF proc.backend = "memory" THEN loop(dict, TRUE, PyNone) ELSE dict
    /\ UNCHANGED <<last, call, result, cliVars, mockVars, txnVars, tangoVars, logVars>>

\* The blocking loop returns: the data the attempt read has changed.
ProcWake ==
    /\ proc.pc = "wait"
    /\ Attempt(proc.inv).out # proc.shown
    /\ proc' = [proc EXCEPT !.pc = "next"]
    /\ UNCHANGED <<backendVars, cliVars, mockVars, txnVars, tangoVars, logVars>>

\* The for statement asks for the next attempt.
ProcNext ==
    /\ proc.pc = "next"
    /\ proc.yielded <= MaxPrints
    /\ proc' = IF next_attempt(proc.backend, proc.yielded, proc.looped,
                               UsedValue(proc.inv, dict) # proc.seen)
               THEN [proc EXCEPT !.pc = "body", !.yielded = @ + 1, !.looped = FALSE]
               ELSE [proc EXCEPT !.pc = "feedback"]
    /\ UNCHANGED <<backendVars, cliVars, mockVars, txnVars, tangoVars, logVars>>

\* "# Possibly give feedback after transaction has concluded"
ProcFeedback ==
    /\ proc.pc = "feedback"
    /\ proc' = [proc EXCEPT !.pc = "return",
                            !.oks = @ + Len(feedback(docopt(proc.inv), proc.pb_id))]
    /\ UNCHANGED <<backendVars, cliVars, mockVars, txnVars, tangoVars, logVars>>

\* A KeyboardInterrupt inside the try statement, and the except clause.
ProcInterrupt ==
    /\ proc.pc \in {"body", "loop", "wait", "next", "feedback"}
    /\ proc' = [proc EXCEPT
                   !.pc = IF except_KeyboardInterrupt(docopt(proc.inv)) = "raise"
                          THEN "KeyboardInterrupt" ELSE "return",
                   !.intr = TRUE,
                   !.at = proc.pc]
    /\ UNCHANGED <<backendVars, cliVars, mockVars, txnVars, tangoVars, logVars>>

\* The process is gone; sdpcfg can be run again.
ProcExit ==
    /\ proc.pc \in {"return", "raised", "KeyboardInterrupt"}
    /\ proc' = NoProc
    /\ UNCHANGED <<backendVars, cliVars, mockVars, txnVars, tangoVars, logVars>>

NextProc ==
    \/ \E inv \in ProcInvocations, backend \in Backends : ProcStart(inv, backend)
    \/ ProcBody
    \/ ProcLoop
    \/ ProcWake
    \/ ProcNext
    \/ ProcFeedback
    \/ ProcInterrupt
    \/ ProcExit
    \/ \E w \in ClientWrites : w[1] = "create" /\ Create(w[2], w[3])
    \/ \E w \in ClientWrites : w[1] = "update" /\ Update(w[2], w[3])
    \/ \E w \in ClientWrites : w[1] = "delete" /\ Delete(w[2])

SpecProc == Init /\ [][NextProc]_vars

(***************************************************************************)
(* Runs of register.py on a Tango database that an administrator also      *)
(* writes between the runs.                                                *)
(***************************************************************************)
\* Entries an administrator makes: a device of another name under the
\* server, and a device of the first subarray's name under another server.
AdminDevices ==
    { [name |-> <<"mid_sdp/elt/master">>, class |-> CLASS, server |-> SERVER],
      [name |-> DeviceName(0), class |-> CLASS, server |-> "Other/1"] }

AdminAddDevice(device_info) ==
    /\ reg.pc = "idle"
    /\ db' = add_device(db, device_info)
    /\ UNCHANGED <<reg, dev, backendVars, cliVars, mockVars, txnVars, procVars, logVars>>

\* __main__: the arguments are parsed.
RegStart(delete_flag, num_devices) ==
    /\ reg.pc = "idle"
    /\ reg' = [pc |-> "delete_server", delete |-> delete_flag,
               num_devices |-> num_devices, index |-> 0, before |-> db]
    /\ UNCHANGED <<db, dev, backendVars, cliVars, mockVars, txnVars, procVars, logVars>>

\* __main__: delete_server(SERVER), in both branches.
RegDeleteServer ==
    /\ reg.pc = "delete_server"
    /\ db' = delete_server(db, SERVER)
    /\ reg' = [reg EXCEPT !.pc = IF reg.delete THEN "exit" ELSE "register"]
    /\ UNCHANGED <<dev, backendVars, cliVars, mockVars, txnVars, procVars, logVars>>

\* register_subarray_devices: one turn of "for index in range(num_devices)".
RegDevice ==
    /\ reg.pc = "register"
    /\ reg.index < reg.num_devices
    /\ db' = register_device(db, SERVER, CLASS, reg.index)
    /\ reg' = [reg EXCEPT !.index = @ + 1]
    /\ UNCHANGED <<dev, backendVars, cliVars, mockVars, txnVars, procVars, logVars>>

\* register_subarray_devices returns.
RegReturn ==
    /\ reg.pc = "register"
    /\ reg.index >= reg.num_devices
    /\ reg' = [reg EXCEPT !.pc = "exit"]
    /\ UNCHANGED <<db, dev, backendVars, cliVars, mockVars, txnVars, procVars, logVars>>

\* The script has ended; it can be run again.
RegExit ==
    /\ reg.pc = "exit"
    /\ reg' = NoReg
    /\ UNCHANGED <<db, dev, backendVars, cliVars, mockVars, txnVars, procVars, logVars>>

\* The script is killed before it ends: what it wrote stays.
RegKill ==
    /\ reg.pc \in {"delete_server", "register"}
    /\ reg' = NoReg
    /\ UNCHANGED <<db, dev, backendVars, cliVars, mockVars, txnVars, procVars, logVars>>

NextReg ==
    \/ \E device_info \in AdminDevices : AdminAddDevice(device_info)
    \/ \E delete_flag \in BOOLEAN, num_devices \in DeviceCounts :
           RegStart(delete_flag, num_devices)
    \/ RegDeleteServer
    \/ RegDevice
    \/ RegReturn
    \/ RegExit
    \/ RegKill

SpecReg == Init /\ [][NextReg]_vars

(***************************************************************************)
(* The SDPSubarray device driven by the steps of its tests.                *)
(***************************************************************************)
\* What a call leaves in the record of the last call.
Called(d, cmd, arg, exc) ==
    [d EXCEPT !.cmd = cmd, !.arg = arg, !.exc = exc, !.before = Attributes(dev)]

\* "the device is initialised": subarray_device.Init()
DevInit ==
    /\ dev' = init_device(dev)
    /\ UNCHANGED <<db, reg, backendVars, cliVars, mockVars, txnVars, procVars, logVars>>

\* "I set adminMode to {value}"
DevSetAdminMode(value) ==
    /\ dev' = Called([dev EXCEPT !.adminMode = value], "adminMode", PyStr(value), "none")
    /\ UNCHANGED <<db, reg, backendVars, cliVars, mockVars, txnVars, procVars, logVars>>

\* "obsState is {value}"
DevSetObsState(value) ==
    /\ dev' = Called([dev EXCEPT !.obsState = value], "obsState", PyStr(value), "none")
    /\ UNCHANGED <<db, reg, backendVars, cliVars, mockVars, txnVars, procVars, logVars>>

\* subarray_device.AssignResources('') and subarray_device.AssignResources()
DevAssignResources(arg) ==
    /\ dev' = IF command_exc(arg) # "none"
              THEN Called(dev, "AssignResources", arg, command_exc(arg))
              ELSE Called(noop_command(dev, arg), "AssignResources", arg, "none")
    /\ UNCHANGED <<db, reg, backendVars, cliVars, mockVars, txnVars, procVars, logVars>>

\* subarray_device.ReleaseResources('') and subarray_device.ReleaseResources()
DevReleaseResources(arg) ==
    /\ dev' = IF command_exc(arg) # "none"
              THEN Called(dev, "ReleaseResources", arg, command_exc(arg))
              ELSE Called(noop_command(dev, arg), "ReleaseResources", arg, "none")
    /\ UNCHANGED <<db, reg, backendVars, cliVars, mockVars, txnVars, procVars, logVars>>

NextDev ==
    \/ DevInit
    \/ \E value \in AdminModes : DevSetAdminMode(value)
    \/ \E value \in ObsStates : DevSetObsState(value)
    \/ \E arg \in CommandArgs : DevAssignResources(arg)
    \/ \E arg \in CommandArgs : DevReleaseResources(arg)

SpecDev == Init /\ [][NextDev]_vars

(***************************************************************************)
(* The steps of the logging shim.                                          *)
(***************************************************************************)
\* A thread calls a redirected stream method: the lambda calls _log_it, which
\* remembers the caller's frame.
StreamCall(t, caller, level) ==
    /\ threads[t].pc = "idle"
    /\ frames' = store_frame(frames, t, caller)
    /\ threads' = [threads EXCEPT ![t] = [pc |-> "log", caller |-> caller,
                                          level |-> level, record |-> NoRecord]]
    /\ UNCHANGED formatted
    /\ UNCHANGED <<backendVars, cliVars, mockVars, txnVars, procVars, tangoVars>>

\* "logging.log(level, msg, *args)" in _log_it: a record is made when the
\* logger is enabled for the level.
LoggingLog(t) ==
    /\ threads[t].pc = "log"
    /\ threads' = [threads EXCEPT ![t] =
           IF threads[t].level >= init_level
           THEN [@ EXCEPT !.pc = "format",
                          !.record = LogRecord([LogItFrame EXCEPT !.lineno = 77],
                                               threads[t].level)]
           ELSE Idle]
    /\ UNCHANGED <<frames, formatted>>
    /\ UNCHANGED <<backendVars, cliVars, mockVars, txnVars, procVars, tangoVars>>

\* A thread logs with the logging module directly, from its own code.
DirectLog(t, caller, level) ==
    /\ threads[t].pc = "idle"
    /\ level >= init_level
    /\ threads' = [threads EXCEPT ![t] = [pc |-> "format", caller |-> caller,
                                          level |-> level,
                                          record |-> LogRecord(caller, level)]]
    /\ UNCHANGED <<frames, formatted>>
    /\ UNCHANGED <<backendVars, cliVars, mockVars, txnVars, procVars, tangoVars>>

\* The handler formats the record on the thread that logged it.
Format(t) ==
    /\ threads[t].pc = "format"
    /\ formatted' = [formatted EXCEPT ![t] =
           [made |-> threads[t].record,
            caller |-> threads[t].caller,
            text |-> SkaFormatter_format(format(frames, t, threads[t].record))]]
    /\ threads' = [threads EXCEPT ![t] = Idle]
    /\ UNCHANGED frames
    /\ UNCHANGED <<backendVars, cliVars, mockVars, txnVars, procVars, tangoVars>>

NextLog ==
    \/ \E t \in Threads, caller \in CallSites, level \in StreamLevels :
         StreamCall(t, caller, level)
    \/ \E t \in Threads : LoggingLog(t)
    \/ \E t \in Threads, caller \in CallSites, level \in StreamLevels :
         DirectLog(t, caller, level)
    \/ \E t \in Threads : Format(t)

SpecLog == Init /\ [][NextLog]_vars

(***************************************************************************)
(* Properties of the memory backend.                                       *)
(***************************************************************************)
\* The stored paths.
Stored(d) == { p \in ValidPaths : _tag_depth0(p) \in DOMAIN d }

\* The elements of a sequence.
Range(s) == { s[i] : i \in 1..Len(s) }

\* C1: for every valid path p, get(p) returns the value of the most recent
\* successful create(p, .) or update(p, .) not followed by a successful
\* delete(p), and None if p was never created or was last deleted.
C1_GetReturnsLastWrite ==
    /\ \A p \in ValidPaths : get(dict, p) = last[p]
    /\ (call.op = "get" => result.ret = last[call.path])

C1_Witness ==
    /\ call.op = "get"
    /\ result.ret = "v2"
    /\ \E q \in ValidPaths \ {call.path} : last[q] = "v1"
    /\ \E q \in ValidPaths : last[q] = None

\* C2: create(p, v2) on a path that holds a value fails with ConfigCollision
\* and leaves the store unchanged; create succeeds exactly when the path
\* holds no value (never created, or deleted since), and then stores v2.
C2_CreateStep ==
    (call'.op = "create" /\ call'.path \in ValidPaths) =>
        IF last[call'.path] # None
        THEN /\ result'.exc = "ConfigCollision"
             /\ dict' = dict
             /\ get(dict', call'.path) = last[call'.path]
        ELSE /\ result'.exc = "none"
             /\ get(dict', call'.path) = call'.value

C2_CreateCollision == [][C2_CreateStep]_vars

C2_Witness ==
    /\ call.op = "create"
    /\ result.exc = "ConfigCollision"
    /\ call.value = "v1"
    /\ last[call.path] = "v2"

\* C3: update(p, v) on a valid path that holds no value fails with
\* ConfigVanished and leaves the store unchanged; on a path that holds a
\* value it overwrites it, so that get(p) returns v, and changes no other key.
C3_UpdateStep ==
    (call'.op = "update" /\ call'.path \in ValidPaths) =>
        IF last[call'.path] = None
        THEN /\ result'.exc = "ConfigVanished"
             /\ dict' = dict
        ELSE /\ result'.exc = "none"
             /\ get(dict', call'.path) = call'.value
             /\ DOMAIN dict' = DOMAIN dict
             /\ \A q \in ValidPaths \ {call'.path} : get(dict', q) = get(dict, q)

C3_UpdateRequiresExistence == [][C3_UpdateStep]_vars

C3_Witness ==
    /\ call.op = "update"
    /\ result.exc = "ConfigVanished"
    /\ dict # EmptyDict
    /\ get(dict, call.path) = None

\* C4: delete(p) on a valid path that holds no value fails with
\* ConfigVanished and leaves the store unchanged; on a path that holds a
\* value it removes exactly that key: get(p) then returns None, no list_keys
\* result contains p, and a second delete(p) fails with ConfigVanished.
C4_DeleteStep ==
    (call'.op = "delete" /\ call'.path \in ValidPaths) =>
        IF last[call'.path] = None
        THEN /\ result'.exc = "ConfigVanished"
             /\ dict' = dict
        ELSE /\ result'.exc = "none"
             /\ DOMAIN dict' = DOMAIN dict \ {_tag_depth0(call'.path)}
             /\ \A k \in DOMAIN dict' : dict'[k] = dict[k]
             /\ get(dict', call'.path) = None
             /\ \A P \in ListInputs : call'.path \notin Range(list_keys(dict', P))
             /\ delete(dict', call'.path).exc = "ConfigVanished"

C4_DeleteRemoves == [][C4_DeleteStep]_vars

C4_Witness ==
    /\ call.op = "delete"
    /\ result.exc = "none"
    /\ call.path = <<"/", "a", "/", "b">>
    /\ Stored(dict) = {<<"/", "a", "/", "b", "/", "d">>}

\* The stored paths that are immediate children of P: P (without a trailing
\* '/'), a '/', and one segment.
ImmediateChildren(d, P) ==
    LET base == IF P = <<"/">> THEN <<>> ELSE RStrip(P)
    IN  { q \in Stored(d) :
            /\ Len(q) > Len(base) + 1
            /\ SubSeq(q, 1, Len(base) + 1) = base \o <<"/">>
            /\ \A i \in (Len(base) + 2)..Len(q) : q[i] # "/" }

\* C5: list_keys(P) returns exactly the stored immediate children of P, in
\* lexicographic order.
C5_ListKeysImmediateChildren ==
    call.op = "list_keys" => result.ret = Sorted(ImmediateChildren(dict, call.path))

(***************************************************************************)
(* Properties of the command line tool.                                    *)
(***************************************************************************)
PathCommands == {"get", "watch", "ls", "list", "delete", "create", "update"}

EndsWithSlash(p) == p # <<>> /\ p[Len(p)] = "/"

\* The path rule of the specification, apart from the trailing '/': the
\* path starts with '/' and holds only permitted characters.
WellFormed(p) ==
    /\ p # <<>>
    /\ p[1] = "/"
    /\ \A i \in 1..Len(p) : Permitted(p[i])

\* The number of colon-separated fields of a workflow argument.
Fields(w) == Cardinality({ i \in 1..Len(w) : w[i] = ":" }) + 1

\* The run ended with the usage text on the error stream and status 1.
UsageExit(run) ==
    /\ run.exit = "exit(1)"
    /\ \E i \in 1..Len(run.stderr) : run.stderr[i] = "__doc__"

\* C6: for get, watch, create, update and delete a path ending with '/' is
\* rejected with exit status 1 before dispatch; for ls and list, with or
\* without watch, an otherwise well-formed path ending with '/' is accepted
\* and the command is dispatched.
C6_TrailingSlashRule ==
    /\ (/\ cli.inv.cmd \in PathCommands \ {"ls", "list"}
        /\ EndsWithSlash(cli.inv.path))
           => (cli.run.exit = "exit(1)" /\ ~cli.run.cfg /\ cli.run.ops = <<>>)
    /\ (/\ cli.inv.cmd \in {"ls", "list"}
        /\ EndsWithSlash(cli.inv.path)
        /\ WellFormed(cli.inv.path))
           => (cli.run.cfg /\ cli.run.ops # <<>> /\ cli.run.ops[1] = "list_keys")

\* C7: every path that does not start with '/' (the empty string included)
\* or that holds a character outside [a-zA-Z0-9_-/] ends the run with the
\* usage text on the error stream and exit status 1, and in no other way.
C7_InvalidPathUsageExit ==
    (cli.inv.cmd \in PathCommands /\ ~WellFormed(cli.inv.path))
        => (UsageExit(cli.run) /\ ~cli.run.cfg)

\* The input is invalid by the specification: a malformed path (a trailing
\* '/' counts for every command but ls and list) or a workflow that has not
\* exactly three fields.
InvalidInput(inv) ==
    \/ /\ inv.cmd \in PathCommands
       /\ \/ ~WellFormed(inv.path)
          \/ (inv.cmd \notin {"ls", "list"} /\ EndsWithSlash(inv.path))
    \/ (inv.cmd = "create_pb" /\ Fields(inv.workflow) # 3)

\* C8: a run with an invalid path or workflow exits with status 1 (by
\* exit(1), or by an exception that leaves main) without constructing the
\* client or making any backend call, and leaves the store as it was.
C8_ValidationBeforeBackend ==
    InvalidInput(cli.inv)
        => /\ cli.run.exit \notin {"none", "return"}
           /\ ~cli.run.cfg
           /\ cli.run.ops = <<>>
           /\ dict = cli.before

\* The same invocation with --quiet set to q.
WithQuiet(inv, q) == [inv EXCEPT !.quiet = q]

\* C9: from every store, a create, update or delete run with --quiet and
\* the same run without it end the same way with the same store; the run
\* without --quiet prints OK exactly when it succeeds and the quiet run
\* prints nothing.
C9_QuietNonInterference ==
    \A inv \in Invocations :
        inv.cmd \in {"create", "update", "delete"} =>
            LET q == main(docopt(WithQuiet(inv, TRUE)), Stdin, dict, pbs)
                n == main(docopt(WithQuiet(inv, FALSE)), Stdin, dict, pbs)
            IN  /\ q.dict = n.dict
                /\ q.pbs = n.pbs
                /\ q.exit = n.exit
                /\ q.stderr = n.stderr
                /\ q.stdout = <<>>
                /\ n.stdout = IF n.exit = "return" THEN <<[line |-> "OK"]>> ELSE <<>>

C9_Witness ==
    /\ cli.inv.cmd = "delete"
    /\ cli.inv.quiet
    /\ cli.run.exit = "return"
    /\ cli.run.stdout = <<>>
    /\ cli.before # EmptyDict
    /\ dict = EmptyDict

(***************************************************************************)
(* Properties of the mock loop.                                            *)
(***************************************************************************)
\* The pass has run to its end: the loop is at txn.loop.
PassCompleted == mock.pc = "loop"

\* A processing block of a recognized receive workflow whose scheduling
\* block exists.
ReceivePb(pb_id) ==
    /\ pb_id \in DOMAIN pbs
    /\ "id" \in DOMAIN pbs[pb_id].workflow
    /\ pbs[pb_id].workflow["id"] \in RECEIVE_WORKFLOWS
    /\ pbs[pb_id].sbi_id \in DOMAIN sbs

\* The state the pass gives a receive block.
ReceiveState == [status |-> "RUNNING", receive_addresses |-> RECEIVE_ADDRESSES]

\* The last block of the pass, in list order, that is a receive block of
\* scheduling block sbi_id.
LastReceivePb(sbi_id) ==
    LET at == { i \in 1..Len(processed) :
                  ReceivePb(processed[i]) /\ pbs[processed[i]].sbi_id = sbi_id }
    IN  processed[CHOOSE i \in at : \A j \in at : j <= i]

\* A step changes no field of a scheduling block other than
\* pb_receive_addresses, and removes no scheduling block.
SbFrame ==
    \A sbi_id \in DOMAIN sbs :
        /\ sbi_id \in DOMAIN sbs'
        /\ DOMAIN sbs'[sbi_id] \ {"pb_receive_addresses"}
               = DOMAIN sbs[sbi_id] \ {"pb_receive_addresses"}
        /\ \A k \in DOMAIN sbs[sbi_id] \ {"pb_receive_addresses"} :
               sbs'[sbi_id][k] = sbs[sbi_id][k]
        /\ (mock.pc = "update_sb" /\ sbi_id # mock.pb.sbi_id)
               => sbs'[sbi_id] = sbs[sbi_id]

\* C10 as claimed: after a completed pass, every receive block the pass
\* found without state has status RUNNING and the fixed receive_addresses,
\* and its scheduling block's pb_receive_addresses is that block's id.
C10_ReceiveCaseAsClaimed ==
    PassCompleted =>
        \A i \in 1..Len(processed) :
            ReceivePb(processed[i]) =>
                /\ get_processing_block_state(pbStates, processed[i]) = ReceiveState
                /\ sbs[pbs[processed[i]].sbi_id]["pb_receive_addresses"] = processed[i]

\* C10 as amended: after a completed pass, every receive block the pass
\* found without state has status RUNNING and the fixed receive_addresses;
\* its scheduling block's pb_receive_addresses is the id of the last block
\* of the pass, in list order, that is a receive block of that scheduling
\* block (the block's own id when it is the only one).
C10_ReceiveState ==
    PassCompleted =>
        \A i \in 1..Len(processed) :
            ReceivePb(processed[i]) =>
                /\ get_processing_block_state(pbStates, processed[i]) = ReceiveState
                /\ sbs[pbs[processed[i]].sbi_id]["pb_receive_addresses"]
                       = LastReceivePb(pbs[processed[i]].sbi_id)

\* ... and no step changes another field of a scheduling block.
C10_ReceiveCase == []C10_ReceiveState /\ [][SbFrame]_vars

C10_Witness ==
    /\ PassCompleted
    /\ processed = <<"pb1", "pb2">>
    /\ ReceivePb("pb1")
    /\ ReceivePb("pb2")
    /\ pbs["pb1"].sbi_id = "sb1"
    /\ pbs["pb2"].sbi_id = "sb1"
    /\ sbs["sb1"]["pb_receive_addresses"] = "pb2"
    /\ sbs["sb1"]["scan_types"] = "scan_types"

\* The workflow of a processing block is a recognized receive workflow.
Recognized(pb_id) ==
    /\ "id" \in DOMAIN pbs[pb_id].workflow
    /\ pbs[pb_id].workflow["id"] \in RECEIVE_WORKFLOWS

\* After a completed pass every block the pass listed has a state; a state
\* the pass created has status RUNNING, and no receive_addresses when the
\* workflow is not a recognized receive workflow.
C11_AfterPass ==
    PassCompleted =>
        \A i \in 1..Len(mock.listed) :
            LET pb_id == mock.listed[i]
            IN  /\ pb_id \in DOMAIN pbStates
                /\ pb_id \in Range(processed) =>
                       /\ pbStates[pb_id]["status"] = "RUNNING"
                       /\ ~Recognized(pb_id) =>
                              "receive_addresses" \notin DOMAIN pbStates[pb_id]

\* Only a block of a recognized receive workflow causes a scheduling-block
\* write.
C11_NoSbWrite == mock.pc = "update_sb" => Recognized(mock.pb_id)

\* C11: after a completed pass every listed block has a state, the states
\* the pass created have status RUNNING, and a block whose workflow is not a
\* recognized receive workflow, whatever fields its descriptor has, gets a
\* state without receive_addresses and causes no scheduling-block write: the
\* pass is never abandoned at such a block leaving it without state.
C11_GeneralCase ==
    /\ C11_AfterPass
    /\ C11_NoSbWrite
    /\ (mock.pc = "raised" /\ ~Recognized(mock.pb_id))
           => mock.pb_id \in DOMAIN pbStates

(***************************************************************************)
(* Properties of the memory transaction.                                   *)
(***************************************************************************)
\* An iteration gives one attempt, and is over only after it gave it.
C12_OneAttempt ==
    \A t \in Txns :
        /\ txns[t].attempts <= 1
        /\ txns[t].it \in {"attempt", "done", "abandoned"} => txns[t].attempts = 1

\* loop() and commit() return inside the attempt they were called in and
\* leave the store alone; the for statement's next request ends the
\* iteration, whatever the body did.
C12_Step ==
    /\ call'.op \in {"loop", "commit"} =>
           /\ dict' = dict
           /\ txns' = txns
           /\ txns'[call'.by].it = "attempt"
    /\ (call'.op = "iter" /\ txns[call'.by].it = "attempt") =>
           txns'[call'.by].it = "done"

\* C12: iterating a MemoryTransaction yields exactly one attempt and then
\* terminates; loop(...) with any wait and timeout, and commit(), called in
\* that attempt return at once, do not change the store and cause no second
\* attempt.
C12_SingleAttempt == []C12_OneAttempt /\ [][C12_Step]_vars

C12_Witness ==
    /\ call.op = "loop"
    /\ call.wait
    /\ call.timeout = PyNone
    /\ txns[call.by].it = "attempt"
    /\ txns[call.by].wrote # EmptyDict
    /\ dict # EmptyDict

(***************************************************************************)
(* Properties of sdpcfg followed through its transaction loop.             *)
(***************************************************************************)
\* The invocation includes watch: 'watch <path>' or 'watch ls <path>'.
IsWatch(inv) == inv.cmd = "watch" \/ inv.watch

\* C13 as claimed: a watch never returns on its own; it ends only through
\* an interrupt.
C13_WatchAsClaimed ==
    (IsWatch(proc.inv) /\ proc.pc \in {"feedback", "return"}) => proc.intr

\* On a backend whose loop(wait=True) blocks (etcd3) a watch has printed
\* before it waits, leaves the transaction loop only through an interrupt,
\* and is given a fresh attempt whenever the wait returns.  On the memory
\* backend a watch prints once: it is given one attempt and its loop()
\* returns at once, so the command returns on its own.
C13_WatchState ==
    IsWatch(proc.inv) =>
        IF loop_blocks(proc.backend)
        THEN /\ proc.pc \in {"feedback", "return"} => proc.intr
             /\ proc.pc \in {"loop", "wait"} => (proc.prints >= 1 /\ proc.shown # <<>>)
        ELSE /\ proc.yielded <= 1
             /\ proc.prints <= 1
             /\ proc.pc # "wait"
             /\ (proc.pc \in {"feedback", "return"} /\ ~proc.intr) => proc.prints = 1

\* The steps of a watch: the body prints and goes on to loop(wait=True);
\* when the blocking loop has returned, the body runs again.
C13_WatchStep ==
    (IsWatch(proc.inv) /\ proc'.inv = proc.inv /\ ~proc'.intr) =>
        /\ (proc.pc = "body" /\ proc'.pc # "body") =>
               (proc'.pc = "loop" /\ proc'.prints = proc.prints + 1)
        /\ (proc.pc = "loop" /\ proc'.pc # "loop") =>
               proc'.pc = IF loop_blocks(proc.backend) THEN "wait" ELSE "next"
        /\ (proc.pc = "wait" /\ proc'.pc # "wait") =>
               (proc'.pc = "next" /\ Attempt(proc.inv).out # proc.shown)
        /\ (proc.pc = "next" /\ proc'.pc # "next" /\ loop_blocks(proc.backend)) =>
               proc'.pc = "body"

\* C13, amended: for 'watch <path>' and 'watch ls <path>' on a backend
\* whose loop blocks, the command prints, re-enters the loop with wait=True,
\* prints again after a change of what it read and ends only through an
\* interrupt; on the memory backend it prints once and returns on its own.
C13_Watch == []C13_WatchState /\ [][C13_WatchStep]_vars

C13_Witness ==
    /\ proc.inv.cmd = "ls"
    /\ proc.inv.watch
    /\ proc.backend = "etcd3"
    /\ proc.pc = "wait"
    /\ proc.prints = 2
    /\ ~proc.intr

\* C14: a KeyboardInterrupt inside the transaction loop ends the run by a
\* normal return exactly when the invocation includes watch; for every
\* other command it leaves main, and then no OK line has been printed.
C14_InterruptHandling ==
    /\ proc.intr =>
           /\ proc.pc \in {"return", "KeyboardInterrupt"}
           /\ proc.pc = "return" <=> IsWatch(proc.inv)
    /\ proc.pc = "KeyboardInterrupt" => (proc.intr /\ proc.oks = 0)

C14_Witness ==
    /\ proc.pc = "KeyboardInterrupt"
    /\ proc.inv.cmd = "create"
    /\ ~proc.inv.quiet
    /\ proc.at = "feedback"
    /\ proc.oks = 0
    /\ get(dict, proc.inv.path) = proc.inv.value

(***************************************************************************)
(* Properties of the device registration.                                  *)
(***************************************************************************)
\* The entries of devices subarray_00 .. subarray_(N-1), the index written
\* with two digits.
ExpectedDevices(N) ==
    { [name |-> <<"mid_sdp/elt/subarray_", Digit(i \div 10), Digit(i % 10)>>,
       class |-> CLASS] : i \in 0..(N - 1) }

\* The entries under a server; none when the server is not registered.
DevicesOf(d, server_name) == IF server_name \in DOMAIN d THEN d[server_name] ELSE {}

\* C15: whatever the database held before, a run without --delete with
\* num_devices = N leaves server SDPSubarray/1 with exactly the N devices
\* mid_sdp/elt/subarray_00 .. subarray_(N-1), two-digit indices, and no
\* others; a second run with the same N leaves the database as it is.
C15_RegistrationIdempotent ==
    (reg.pc = "exit" /\ ~reg.delete) =>
        /\ DevicesOf(db, SERVER) = ExpectedDevices(reg.num_devices)
        /\ get_device_name(db, SERVER, CLASS)
               = { e.name : e \in ExpectedDevices(reg.num_devices) }
        /\ register_main(db, FALSE, reg.num_devices) = db
        /\ register_main(reg.before, FALSE, reg.num_devices) = db

C15_Witness ==
    /\ reg.pc = "exit"
    /\ ~reg.delete
    /\ reg.num_devices = 2
    /\ Cardinality(DevicesOf(reg.before, SERVER)) = 4
    /\ [name |-> <<"mid_sdp/elt/master">>, class |-> CLASS] \in DevicesOf(reg.before, SERVER)

C17_WritesRemain ==
    \A t \in Txns :
        \A p \in DOMAIN txns[t].wrote : get(dict, p) = txns[t].wrote[p]

\* The operation that fails leaves the store as it found it: nothing is
\* undone.
C17_FailingStep == result'.exc # "none" => dict' = dict

\* C17: when an attempt has made writes w1..wk and a later operation of the
\* attempt fails with ConfigCollision, ConfigVanished or a path-validation
\* error, the effects of w1..wk are still in the store after the attempt is
\* abandoned.
C17_NoRollback == []C17_WritesRemain /\ [][C17_FailingStep]_vars

C17_Witness ==
    \E t \in Txns :
        /\ txns[t].it = "abandoned"
        /\ "by" \in DOMAIN call
        /\ call.by = t
        /\ result.exc = "ConfigCollision"
        /\ DOMAIN txns[t].wrote = TxnPaths \cap ValidPaths
        /\ txns[t].wrote[<<"/", "a">>] = "v2"
        /\ \A u \in Txns \ {t} : txns[u].it = "new"

\* P is the parent of the path q.
IsChild(q, P) ==
    /\ Len(q) > Len(P) + 1
    /\ SubSeq(q, 1, Len(P) + 1) = P \o <<"/">>
    /\ \A i \in (Len(P) + 2)..Len(q) : q[i] # "/"

\* C18: a get or list_keys through either transaction, or directly on the
\* backend, sees every successful create, update and delete made before it
\* through any transaction, committed or not: get returns the value last
\* written by anyone, and list_keys holds a child exactly when its last
\* write was not a delete.
C18_NoIsolation ==
    /\ call.op = "get" => result.ret = last[call.path]
    /\ call.op = "list_keys" =>
           \A q \in ValidPaths :
               IsChild(q, call.path) =>
                   (q \in Range(result.ret) <=> last[q] # None)

C18_Witness ==
    /\ call.op = "get"
    /\ "by" \in DOMAIN call
    /\ call.by = "t2"
    /\ result.ret = "v1"
    /\ txns["t1"].it = "attempt"
    /\ call.path \in DOMAIN txns["t1"].wrote
    /\ txns["t1"].wrote[call.path] = "v1"
    /\ txns["t2"].wrote = EmptyDict

(***************************************************************************)
(* Properties of the mock loop's cancellation.                             *)
(***************************************************************************)
\* When the loop has stopped on the event, or waits after a pass, every
\* block the last pass listed has a state.
C19_PassRanToEnd ==
    mock.pc \in {"loop", "done"} =>
        \A i \in 1..Len(mock.listed) : mock.listed[i] \in DOMAIN pbStates

\* The loop stops on the event only at the top of an attempt, and there it
\* does nothing but stop; having stopped it takes no further step.
C19_Step ==
    /\ (mock'.pc = "done" /\ mock.pc # "done") =>
           (mock.pc = "top" /\ end /\ mock' = [mock EXCEPT !.pc = "done"])
    /\ (mock.pc = "top" /\ end /\ mock' # mock) => mock'.pc = "done"
    /\ mock.pc = "done" => mock' = mock
    /\ (mock' # mock /\ mock.pc # "top") =>
           /\ mock'.pc # "done"
           /\ mock.pc = "for" => mock'.pc \in {"for", "get_pb", "loop"}

\* C19: the stop event is read only at the top of an attempt; a pass in
\* progress when the event is set still handles every block it listed
\* before the loop stops, and an attempt that finds the event set makes no
\* store read or write and the loop exits.
C19_CooperativeCancellation == []C19_PassRanToEnd /\ [][C19_Step]_vars

C19_Witness ==
    /\ mock.pc = "done"
    /\ end
    /\ mock.waits = 1
    /\ Len(mock.listed) = 2
    /\ processed = mock.listed

\* The loop's thread has ended: it left the loop on the event, or an
\* exception left it.
Terminated == mock.pc \in {"done", "raised"}

\* C20: once the fixture has set the stop event the thread of the loop
\* ends, given that it is scheduled and that every loop(wait=True,
\* timeout=timeout) returns; at most one wait is entered after the event is
\* set.
C20_TerminatesAtTeardown == (end ~> Terminated) /\ [](mock.waits <= 1)

C20_Witness ==
    /\ end
    /\ mock.pc = "done"
    /\ mock.waits = 1
    /\ Len(mock.listed) = 1
    /\ processed = <<>>

(***************************************************************************)
(* Properties of the logging shim.                                         *)
(***************************************************************************)
\* The record was made by _log_it.
FromShim(record) == record.pathname = __file__

\* What a record reports when it is attributed to the given frame.
Attributed(frame) ==
    [funcName |-> frame.function, filename |-> PathName(frame.filename),
     lineno |-> frame.lineno]

\* From _log_it's store until the record is formatted, the thread's entry
\* holds the frame of the call in progress; every formatted record of the
\* shim reports the caller of the call that made it.
C21_OwnFrame ==
    \A t \in Threads :
        /\ threads[t].pc = "log" \/
             (threads[t].pc = "format" /\ FromShim(threads[t].record)) =>
               /\ t \in DOMAIN frames
               /\ frames[t] = threads[t].caller
        /\ FromShim(formatted[t].made) =>
               formatted[t].text = Attributed(formatted[t].caller)

\* An entry changes only by the store of a call on the thread it is keyed
\* by, and a record of the shim is formatted from the formatting thread's
\* own entry.
C21_Step ==
    \A t \in Threads :
        /\ (t \in DOMAIN frames' /\
              (t \notin DOMAIN frames \/ frames'[t] # frames[t])) =>
               /\ threads[t].pc = "idle"
               /\ threads'[t].pc = "log"
               /\ frames'[t] = threads'[t].caller
        /\ DOMAIN frames \subseteq DOMAIN frames'
        /\ DOMAIN frames' \subseteq Threads
        /\ (threads[t].pc = "format" /\ threads'[t].pc = "idle" /\
              FromShim(threads[t].record)) =>
               formatted'[t].text = Attributed(frames[t])

\* C21: under every interleaving of threads calling the redirected stream
\* methods, each thread writes and reads LogManager.frames only under its
\* own key, and the record of a call on thread T reports the function,
\* file basename and line of the frame T stored for that call, never a
\* frame of another thread or of an earlier call on T.
C21_CallSiteAttribution == []C21_OwnFrame /\ [][C21_Step]_vars

\* T1's call is formatted after T2 stored another frame in between and
\* after an earlier call on T1 from another place.
C21_Witness ==
    /\ FromShim(formatted["T1"].made)
    /\ formatted["T1"].text.funcName = "Configure"
    /\ {"T1", "T2"} \subseteq DOMAIN frames
    /\ frames["T1"].function = "run"
    /\ threads["T1"].pc = "format"
    /\ frames["T2"].function = "init_device"
    /\ threads["T2"].pc = "log"

(***************************************************************************)
(* Properties of the feedback of sdpcfg.                                   *)
(***************************************************************************)
\* The run is a create, update or delete.
IsWrite(inv) == inv.cmd \in {"create", "update", "delete"}

\* While the attempts go on, and when the run was left by an exception, no
\* OK has been printed; a run that returned after its last attempt has
\* printed one.
C22_FeedbackState ==
    IsWrite(proc.inv) =>
        /\ proc.oks <= 1
        /\ proc.pc \in {"body", "loop", "wait", "next", "feedback", "raised",
                       "KeyboardInterrupt"} => proc.oks = 0
        /\ proc.pc = "raised" => proc.exc \in {"ConfigCollision", "ConfigVanished"}
        /\ proc.oks = 1 => (proc.pc = "return" /\ proc.exc = "none" /\ ~proc.intr)
        /\ (proc.pc = "return" /\ ~proc.intr) => proc.oks = 1

\* OK is printed by the step after the for statement has ended, and by no
\* other.
C22_FeedbackStep ==
    (IsWrite(proc.inv) /\ proc'.oks # proc.oks /\ proc'.pc # "idle") =>
        /\ proc.pc = "feedback"
        /\ proc'.pc = "return"
        /\ proc'.oks = proc.oks + 1

\* C22: a create, update or delete without --quiet prints OK once, after
\* the transaction loop has ended and only when the operation did not
\* raise; an attempt that raised Collision or Vanished, and an attempt that
\* was retried, print no OK of their own.
C22_FeedbackOrdering == []C22_FeedbackState /\ [][C22_FeedbackStep]_vars

\* A create whose first attempt was retried has returned.
C22_Witness ==
    /\ proc.inv.cmd = "create"
    /\ proc.pc = "return"
    /\ proc.yielded = 2
    /\ proc.oks = 1

(***************************************************************************)
(* Properties of the mock loop's writes.                                   *)
(***************************************************************************)
\* The thread of the loop takes the step.
MockActs == mock' # mock /\ mock.pc \notin {"idle", "done", "raised"}

\* The loop is handling a block only if the current pass found it without
\* state, and an exception of create_processing_block_state is about such
\* a block.
C23_OnlyFoundWithout ==
    /\ mock.pc \in {"get_pb", "get_sb", "update_sb", "create_state"} =>
           mock.pb_id \in Range(processed)
    /\ (mock.pc = "raised" /\ mock.exc = "ConfigCollision") =>
           mock.pb_id \in Range(processed)

\* No step rewrites or removes a state.  A block that has a state when the
\* loop reads it is passed over without a write; the loop writes a
\* scheduling block or a state only for a block it found without state;
\* a pass that finds no block without state writes nothing and raises
\* nothing.
C23_Step ==
    /\ \A pb_id \in DOMAIN pbStates :
           pb_id \in DOMAIN pbStates' /\ pbStates'[pb_id] = pbStates[pb_id]
    /\ (MockActs /\ mock.pc = "for" /\ mock.pb_list # <<>> /\
          Head(mock.pb_list) \in DOMAIN pbStates) =>
           /\ mock'.pc = "for"
           /\ processed' = processed
           /\ pbStates' = pbStates
           /\ sbs' = sbs
    /\ (processed' # processed /\ processed' # <<>>) =>
           processed'[Len(processed')] \notin DOMAIN pbStates
    /\ (MockActs /\ (sbs' # sbs \/ pbStates' # pbStates)) =>
           /\ mock.pb_id \in Range(processed)
           /\ sbs' # sbs => DOMAIN sbs' = DOMAIN sbs /\
                 \A sbi_id \in DOMAIN sbs :
                     sbs'[sbi_id] # sbs[sbi_id] => sbi_id = mock.pb.sbi_id
           /\ pbStates' # pbStates =>
                 DOMAIN pbStates' = DOMAIN pbStates \cup {mock.pb_id}
    /\ (MockActs /\ processed = <<>> /\ processed' = <<>>) =>
           /\ pbStates' = pbStates
           /\ sbs' = sbs
           /\ mock'.pc # "raised"

Naming == { sbi_id \in DOMAIN sbs : "pb_receive_addresses" \in DOMAIN sbs[sbi_id] }

\* The state of the processing block exists and holds the addresses.
Published(pb_id) ==
    /\ pb_id \in DOMAIN pbStates
    /\ "receive_addresses" \in DOMAIN pbStates[pb_id]

\* The loop has written the scheduling block of the block it is handling
\* and has not yet created the block's state.
InWindow(pb_id) == mock.pc = "create_state" /\ mock.pb_id = pb_id

\* The loop's thread was ended by a collision on the state of the block.
Collided(pb_id) ==
    mock.pc = "raised" /\ mock.exc = "ConfigCollision" /\ mock.pb_id = pb_id

\* C24 as claimed: in every state of the store, a processing block that a
\* scheduling block's pb_receive_addresses names has a state that contains
\* receive_addresses.
C24_PublicationAsClaimed ==
    \A sbi_id \in Naming : Published(sbs[sbi_id]["pb_receive_addresses"])

\* C24 as amended: a processing block that a scheduling block's
\* pb_receive_addresses names has a state that contains receive_addresses,
\* except while the loop is between its write of the scheduling block and
\* its creation of that block's state, and except when the creation raised
\* a collision; whenever the loop waits after a pass, or has stopped on the
\* event, there is no exception.
C24_Publication ==
    /\ \A sbi_id \in Naming :
           LET pb_id == sbs[sbi_id]["pb_receive_addresses"]
           IN  Published(pb_id) \/ InWindow(pb_id) \/ Collided(pb_id)
    /\ mock.pc \in {"top", "for", "loop", "done"} => C24_PublicationAsClaimed

\* After a pass the scheduling block names a block whose state holds the
\* addresses, beside a block whose state another client created.
C24_Witness ==
    /\ mock.pc = "loop"
    /\ processed = <<"pb1">>
    /\ "sb2" \in Naming
    /\ sbs["sb2"]["pb_receive_addresses"] = "pb1"
    /\ Published("pb1")
    /\ "pb2" \in DOMAIN pbStates
    /\ ~Published("pb2")

=============================================================================
